---- MODULE Spec2Model ----
(***************************************************************************)
(* A model of VocalEye's document generator,                               *)
(* src/voice_assistant/modules/llm_tools/create_file.py: the block parser  *)
(* (parse_txt_structure, _sanitize_inline_markup), the greedy line wrapper *)
(* (_lines_for_paragraph and the loop written inline in txt_to_pptx), the  *)
(* renderers txt_to_pdf, txt_to_docx and txt_to_pptx, and the entry point  *)
(* file_generator with its caller process_with_llm.                        *)
(*                                                                         *)
(* A Python str is a sequence of one-character strings: "a b" is           *)
(* <<"a", " ", "b">>.  A character that is not printable ASCII is the      *)
(* string of its code point, U+000B being "\\u000B" and U+20000 being      *)
(* "\\U00020000"; the soft hyphen U+00AD is SHY and the backtick is Tick.  *)
(* None is the value None, which is no sequence of characters.             *)
(***************************************************************************)
EXTENDS Integers, Sequences, FiniteSets, TLC

VARIABLES
    \* _sanitize_inline_markup, called on its own result
    san_pc, san_in, san_once, san_twice,
    \* parse_txt_structure
    parse_pc, raw, out,
    \* _lines_for_paragraph and the wrapping loop of txt_to_pptx
    wrap_pc, wrap_text, wrap_budget, helper_lines, inline_lines,
    \* soften of txt_to_pptx
    soft_pc, soft_text, softened,
    \* txt_to_pptx
    pc, title, blocks, idx, slides, tf, used_lines, placed, pptx_file,
    \* txt_to_pdf
    pdf_pc, pdf_file, pdf_title, pdf_blocks, pdf_idx, story, bullets,
    \* txt_to_docx
    docx_pc, docx_file, docx_title, docx_blocks, docx_idx, document,
    \* the file system and the platform: the directories that exist, the files
    \* and what they hold, the paths written to, the open-file invocations made
    dirs, files, writes, opened,
    \* file_generator and process_with_llm
    gen_pc, topic, filetype, save_path, resp_text, gen_result, llm_result

sanVars == <<san_pc, san_in, san_once, san_twice>>
parseVars == <<parse_pc, raw, out>>
wrapVars == <<wrap_pc, wrap_text, wrap_budget, helper_lines, inline_lines>>
softVars == <<soft_pc, soft_text, softened>>
pptxVars == <<pc, title, blocks, idx, slides, tf, used_lines, placed, pptx_file>>
pdfVars == <<pdf_pc, pdf_file, pdf_title, pdf_blocks, pdf_idx, story, bullets>>
docxVars == <<docx_pc, docx_file, docx_title, docx_blocks, docx_idx, document>>
fsVars == <<dirs, files, writes, opened>>
genVars == <<gen_pc, topic, filetype, save_path, resp_text, gen_result, llm_result>>
vars == <<sanVars, parseVars, wrapVars, softVars, pptxVars, pdfVars, docxVars, fsVars, genVars>>

(***************************************************************************)
(* Characters and the str methods the code uses                            *)
(***************************************************************************)
\* the soft hyphen U+00AD
SHY == "\\u00AD"

\* the backtick U+0060, which a TLA+ string cannot hold
Tick == "\\x60"
None == <<"None">>

\* the characters str.isspace holds for: the ASCII whitespace, the separators
\* U+001C to U+001F, U+0085, U+00A0 and the Unicode spaces
SpaceChars ==
    {"\t", "\n", "\\u000B", "\f", "\r", "\\u001C", "\\u001D", "\\u001E", "\\u001F",
     " ", "\\u0085", "\\u00A0", "\\u1680", "\\u2000", "\\u2001", "\\u2002", "\\u2003",
     "\\u2004", "\\u2005", "\\u2006", "\\u2007", "\\u2008", "\\u2009", "\\u200A",
     "\\u2028", "\\u2029", "\\u202F", "\\u205F", "\\u3000"}

\* str.isspace, which decides str.strip, str.split and the regex class \s
IsSpace(c) == c \in SpaceChars

\* the characters str.splitlines breaks a line at
LineBreakChars ==
    {"\n", "\\u000B", "\f", "\r", "\\u001C", "\\u001D", "\\u001E", "\\u0085",
     "\\u2028", "\\u2029"}

\* the line boundaries of str.splitlines
IsLineBreak(c) == c \in LineBreakChars

\* the sixteen digits of a code point written in base 16
HexDigits ==
    <<"0", "1", "2", "3", "4", "5", "6", "7", "8", "9", "A", "B", "C", "D", "E", "F">>

Hex4(n) ==
    HexDigits[((n \div 4096) % 16) + 1] \o HexDigits[((n \div 256) % 16) + 1]
        \o HexDigits[((n \div 16) % 16) + 1] \o HexDigits[(n % 16) + 1]

\* the character of code point n, for n above 127: "\\u" and four digits up to
\* U+FFFF, "\\U" and eight digits above
CharOf(n) ==
    IF n < 65536 THEN "\\u" \o Hex4(n) ELSE "\\U" \o Hex4(n \div 65536) \o Hex4(n % 65536)

\* the ASCII characters of the regex class \w
AsciiWordChars ==
    {"0", "1", "2", "3", "4", "5", "6", "7", "8", "9", "A", "B", "C", "D",
     "E", "F", "G", "H", "I", "J", "K", "L", "M", "N", "O", "P", "Q", "R",
     "S", "T", "U", "V", "W", "X", "Y", "Z", "_", "a", "b", "c", "d", "e",
     "f", "g", "h", "i", "j", "k", "l", "m", "n", "o", "p", "q", "r", "s",
     "t", "u", "v", "w", "x", "y", "z"}

\* the characters above U+007F of the regex class \w of a str pattern, that is
\* those str.isalnum holds for (Unicode 14.0.0, 133485 characters), as the ranges
\* <<first, last>> of their code points
WordRanges ==
    {<<170, 170>>, <<178, 179>>, <<181, 181>>, <<185, 186>>, <<188, 190>>,
     <<192, 214>>, <<216, 246>>, <<248, 705>>, <<710, 721>>, <<736, 740>>,
     <<748, 748>>, <<750, 750>>, <<880, 884>>, <<886, 887>>, <<890, 893>>,
     <<895, 895>>, <<902, 902>>, <<904, 906>>, <<908, 908>>, <<910, 929>>,
     <<931, 1013>>, <<1015, 1153>>, <<1162, 1327>>, <<1329, 1366>>,
     <<1369, 1369>>, <<1376, 1416>>, <<1488, 1514>>, <<1519, 1522>>,
     <<1568, 1610>>, <<1632, 1641>>, <<1646, 1647>>, <<1649, 1747>>,
     <<1749, 1749>>, <<1765, 1766>>, <<1774, 1788>>, <<1791, 1791>>,
     <<1808, 1808>>, <<1810, 1839>>, <<1869, 1957>>, <<1969, 1969>>,
     <<1984, 2026>>, <<2036, 2037>>, <<2042, 2042>>, <<2048, 2069>>,
     <<2074, 2074>>, <<2084, 2084>>, <<2088, 2088>>, <<2112, 2136>>,
     <<2144, 2154>>, <<2160, 2183>>, <<2185, 2190>>, <<2208, 2249>>,
     <<2308, 2361>>, <<2365, 2365>>, <<2384, 2384>>, <<2392, 2401>>,
     <<2406, 2415>>, <<2417, 2432>>, <<2437, 2444>>, <<2447, 2448>>,
     <<2451, 2472>>, <<2474, 2480>>, <<2482, 2482>>, <<2486, 2489>>,
     <<2493, 2493>>, <<2510, 2510>>, <<2524, 2525>>, <<2527, 2529>>,
     <<2534, 2545>>, <<2548, 2553>>, <<2556, 2556>>, <<2565, 2570>>,
     <<2575, 2576>>, <<2579, 2600>>, <<2602, 2608>>, <<2610, 2611>>,
     <<2613, 2614>>, <<2616, 2617>>, <<2649, 2652>>, <<2654, 2654>>,
     <<2662, 2671>>, <<2674, 2676>>, <<2693, 2701>>, <<2703, 2705>>,
     <<2707, 2728>>, <<2730, 2736>>, <<2738, 2739>>, <<2741, 2745>>,
     <<2749, 2749>>, <<2768, 2768>>, <<2784, 2785>>, <<2790, 2799>>,
     <<2809, 2809>>, <<2821, 2828>>, <<2831, 2832>>, <<2835, 2856>>,
     <<2858, 2864>>, <<2866, 2867>>, <<2869, 2873>>, <<2877, 2877>>,
     <<2908, 2909>>, <<2911, 2913>>, <<2918, 2927>>, <<2929, 2935>>,
     <<2947, 2947>>, <<2949, 2954>>, <<2958, 2960>>, <<2962, 2965>>,
     <<2969, 2970>>, <<2972, 2972>>, <<2974, 2975>>, <<2979, 2980>>,
     <<2984, 2986>>, <<2990, 3001>>, <<3024, 3024>>, <<3046, 3058>>,
     <<3077, 3084>>, <<3086, 3088>>, <<3090, 3112>>, <<3114, 3129>>,
     <<3133, 3133>>, <<3160, 3162>>, <<3165, 3165>>, <<3168, 3169>>,
     <<3174, 3183>>, <<3192, 3198>>, <<3200, 3200>>, <<3205, 3212>>,
     <<3214, 3216>>, <<3218, 3240>>, <<3242, 3251>>, <<3253, 3257>>,
     <<3261, 3261>>, <<3293, 3294>>, <<3296, 3297>>, <<3302, 3311>>,
     <<3313, 3314>>, <<3332, 3340>>, <<3342, 3344>>, <<3346, 3386>>,
     <<3389, 3389>>, <<3406, 3406>>, <<3412, 3414>>, <<3416, 3425>>,
     <<3430, 3448>>, <<3450, 3455>>, <<3461, 3478>>, <<3482, 3505>>,
     <<3507, 3515>>, <<3517, 3517>>, <<3520, 3526>>, <<3558, 3567>>,
     <<3585, 3632>>, <<3634, 3635>>, <<3648, 3654>>, <<3664, 3673>>,
     <<3713, 3714>>, <<3716, 3716>>, <<3718, 3722>>, <<3724, 3747>>,
     <<3749, 3749>>, <<3751, 3760>>, <<3762, 3763>>, <<3773, 3773>>,
     <<3776, 3780>>, <<3782, 3782>>, <<3792, 3801>>, <<3804, 3807>>,
     <<3840, 3840>>, <<3872, 3891>>, <<3904, 3911>>, <<3913, 3948>>,
     <<3976, 3980>>, <<4096, 4138>>, <<4159, 4169>>, <<4176, 4181>>,
     <<4186, 4189>>, <<4193, 4193>>, <<4197, 4198>>, <<4206, 4208>>,
     <<4213, 4225>>, <<4238, 4238>>, <<4240, 4249>>, <<4256, 4293>>,
     <<4295, 4295>>, <<4301, 4301>>, <<4304, 4346>>, <<4348, 4680>>,
     <<4682, 4685>>, <<4688, 4694>>, <<4696, 4696>>, <<4698, 4701>>,
     <<4704, 4744>>, <<4746, 4749>>, <<4752, 4784>>, <<4786, 4789>>,
     <<4792, 4798>>, <<4800, 4800>>, <<4802, 4805>>, <<4808, 4822>>,
     <<4824, 4880>>, <<4882, 4885>>, <<4888, 4954>>, <<4969, 4988>>,
     <<4992, 5007>>, <<5024, 5109>>, <<5112, 5117>>, <<5121, 5740>>,
     <<5743, 5759>>, <<5761, 5786>>, <<5792, 5866>>, <<5870, 5880>>,
     <<5888, 5905>>, <<5919, 5937>>, <<5952, 5969>>, <<5984, 5996>>,
     <<5998, 6000>>, <<6016, 6067>>, <<6103, 6103>>, <<6108, 6108>>,
     <<6112, 6121>>, <<6128, 6137>>, <<6160, 6169>>, <<6176, 6264>>,
     <<6272, 6276>>, <<6279, 6312>>, <<6314, 6314>>, <<6320, 6389>>,
     <<6400, 6430>>, <<6470, 6509>>, <<6512, 6516>>, <<6528, 6571>>,
     <<6576, 6601>>, <<6608, 6618>>, <<6656, 6678>>, <<6688, 6740>>,
     <<6784, 6793>>, <<6800, 6809>>, <<6823, 6823>>, <<6917, 6963>>,
     <<6981, 6988>>, <<6992, 7001>>, <<7043, 7072>>, <<7086, 7141>>,
     <<7168, 7203>>, <<7232, 7241>>, <<7245, 7293>>, <<7296, 7304>>,
     <<7312, 7354>>, <<7357, 7359>>, <<7401, 7404>>, <<7406, 7411>>,
     <<7413, 7414>>, <<7418, 7418>>, <<7424, 7615>>, <<7680, 7957>>,
     <<7960, 7965>>, <<7968, 8005>>, <<8008, 8013>>, <<8016, 8023>>,
     <<8025, 8025>>, <<8027, 8027>>, <<8029, 8029>>, <<8031, 8061>>,
     <<8064, 8116>>, <<8118, 8124>>, <<8126, 8126>>, <<8130, 8132>>,
     <<8134, 8140>>, <<8144, 8147>>, <<8150, 8155>>, <<8160, 8172>>,
     <<8178, 8180>>, <<8182, 8188>>, <<8304, 8305>>, <<8308, 8313>>,
     <<8319, 8329>>, <<8336, 8348>>, <<8450, 8450>>, <<8455, 8455>>,
     <<8458, 8467>>, <<8469, 8469>>, <<8473, 8477>>, <<8484, 8484>>,
     <<8486, 8486>>, <<8488, 8488>>, <<8490, 8493>>, <<8495, 8505>>,
     <<8508, 8511>>, <<8517, 8521>>, <<8526, 8526>>, <<8528, 8585>>,
     <<9312, 9371>>, <<9450, 9471>>, <<10102, 10131>>, <<11264, 11492>>,
     <<11499, 11502>>, <<11506, 11507>>, <<11517, 11517>>, <<11520, 11557>>,
     <<11559, 11559>>, <<11565, 11565>>, <<11568, 11623>>, <<11631, 11631>>,
     <<11648, 11670>>, <<11680, 11686>>, <<11688, 11694>>, <<11696, 11702>>,
     <<11704, 11710>>, <<11712, 11718>>, <<11720, 11726>>, <<11728, 11734>>,
     <<11736, 11742>>, <<11823, 11823>>, <<12293, 12295>>, <<12321, 12329>>,
     <<12337, 12341>>, <<12344, 12348>>, <<12353, 12438>>, <<12445, 12447>>,
     <<12449, 12538>>, <<12540, 12543>>, <<12549, 12591>>, <<12593, 12686>>,
     <<12690, 12693>>, <<12704, 12735>>, <<12784, 12799>>, <<12832, 12841>>,
     <<12872, 12879>>, <<12881, 12895>>, <<12928, 12937>>, <<12977, 12991>>,
     <<13312, 19903>>, <<19968, 42124>>, <<42192, 42237>>, <<42240, 42508>>,
     <<42512, 42539>>, <<42560, 42606>>, <<42623, 42653>>, <<42656, 42735>>,
     <<42775, 42783>>, <<42786, 42888>>, <<42891, 42954>>, <<42960, 42961>>,
     <<42963, 42963>>, <<42965, 42969>>, <<42994, 43009>>, <<43011, 43013>>,
     <<43015, 43018>>, <<43020, 43042>>, <<43056, 43061>>, <<43072, 43123>>,
     <<43138, 43187>>, <<43216, 43225>>, <<43250, 43255>>, <<43259, 43259>>,
     <<43261, 43262>>, <<43264, 43301>>, <<43312, 43334>>, <<43360, 43388>>,
     <<43396, 43442>>, <<43471, 43481>>, <<43488, 43492>>, <<43494, 43518>>,
     <<43520, 43560>>, <<43584, 43586>>, <<43588, 43595>>, <<43600, 43609>>,
     <<43616, 43638>>, <<43642, 43642>>, <<43646, 43695>>, <<43697, 43697>>,
     <<43701, 43702>>, <<43705, 43709>>, <<43712, 43712>>, <<43714, 43714>>,
     <<43739, 43741>>, <<43744, 43754>>, <<43762, 43764>>, <<43777, 43782>>,
     <<43785, 43790>>, <<43793, 43798>>, <<43808, 43814>>, <<43816, 43822>>,
     <<43824, 43866>>, <<43868, 43881>>, <<43888, 44002>>, <<44016, 44025>>,
     <<44032, 55203>>, <<55216, 55238>>, <<55243, 55291>>, <<63744, 64109>>,
     <<64112, 64217>>, <<64256, 64262>>, <<64275, 64279>>, <<64285, 64285>>,
     <<64287, 64296>>, <<64298, 64310>>, <<64312, 64316>>, <<64318, 64318>>,
     <<64320, 64321>>, <<64323, 64324>>, <<64326, 64433>>, <<64467, 64829>>,
     <<64848, 64911>>, <<64914, 64967>>, <<65008, 65019>>, <<65136, 65140>>,
     <<65142, 65276>>, <<65296, 65305>>, <<65313, 65338>>, <<65345, 65370>>,
     <<65382, 65470>>, <<65474, 65479>>, <<65482, 65487>>, <<65490, 65495>>,
     <<65498, 65500>>, <<65536, 65547>>, <<65549, 65574>>, <<65576, 65594>>,
     <<65596, 65597>>, <<65599, 65613>>, <<65616, 65629>>, <<65664, 65786>>,
     <<65799, 65843>>, <<65856, 65912>>, <<65930, 65931>>, <<66176, 66204>>,
     <<66208, 66256>>, <<66273, 66299>>, <<66304, 66339>>, <<66349, 66378>>,
     <<66384, 66421>>, <<66432, 66461>>, <<66464, 66499>>, <<66504, 66511>>,
     <<66513, 66517>>, <<66560, 66717>>, <<66720, 66729>>, <<66736, 66771>>,
     <<66776, 66811>>, <<66816, 66855>>, <<66864, 66915>>, <<66928, 66938>>,
     <<66940, 66954>>, <<66956, 66962>>, <<66964, 66965>>, <<66967, 66977>>,
     <<66979, 66993>>, <<66995, 67001>>, <<67003, 67004>>, <<67072, 67382>>,
     <<67392, 67413>>, <<67424, 67431>>, <<67456, 67461>>, <<67463, 67504>>,
     <<67506, 67514>>, <<67584, 67589>>, <<67592, 67592>>, <<67594, 67637>>,
     <<67639, 67640>>, <<67644, 67644>>, <<67647, 67669>>, <<67672, 67702>>,
     <<67705, 67742>>, <<67751, 67759>>, <<67808, 67826>>, <<67828, 67829>>,
     <<67835, 67867>>, <<67872, 67897>>, <<67968, 68023>>, <<68028, 68047>>,
     <<68050, 68096>>, <<68112, 68115>>, <<68117, 68119>>, <<68121, 68149>>,
     <<68160, 68168>>, <<68192, 68222>>, <<68224, 68255>>, <<68288, 68295>>,
     <<68297, 68324>>, <<68331, 68335>>, <<68352, 68405>>, <<68416, 68437>>,
     <<68440, 68466>>, <<68472, 68497>>, <<68521, 68527>>, <<68608, 68680>>,
     <<68736, 68786>>, <<68800, 68850>>, <<68858, 68899>>, <<68912, 68921>>,
     <<69216, 69246>>, <<69248, 69289>>, <<69296, 69297>>, <<69376, 69415>>,
     <<69424, 69445>>, <<69457, 69460>>, <<69488, 69505>>, <<69552, 69579>>,
     <<69600, 69622>>, <<69635, 69687>>, <<69714, 69743>>, <<69745, 69746>>,
     <<69749, 69749>>, <<69763, 69807>>, <<69840, 69864>>, <<69872, 69881>>,
     <<69891, 69926>>, <<69942, 69951>>, <<69956, 69956>>, <<69959, 69959>>,
     <<69968, 70002>>, <<70006, 70006>>, <<70019, 70066>>, <<70081, 70084>>,
     <<70096, 70106>>, <<70108, 70108>>, <<70113, 70132>>, <<70144, 70161>>,
     <<70163, 70187>>, <<70272, 70278>>, <<70280, 70280>>, <<70282, 70285>>,
     <<70287, 70301>>, <<70303, 70312>>, <<70320, 70366>>, <<70384, 70393>>,
     <<70405, 70412>>, <<70415, 70416>>, <<70419, 70440>>, <<70442, 70448>>,
     <<70450, 70451>>, <<70453, 70457>>, <<70461, 70461>>, <<70480, 70480>>,
     <<70493, 70497>>, <<70656, 70708>>, <<70727, 70730>>, <<70736, 70745>>,
     <<70751, 70753>>, <<70784, 70831>>, <<70852, 70853>>, <<70855, 70855>>,
     <<70864, 70873>>, <<71040, 71086>>, <<71128, 71131>>, <<71168, 71215>>,
     <<71236, 71236>>, <<71248, 71257>>, <<71296, 71338>>, <<71352, 71352>>,
     <<71360, 71369>>, <<71424, 71450>>, <<71472, 71483>>, <<71488, 71494>>,
     <<71680, 71723>>, <<71840, 71922>>, <<71935, 71942>>, <<71945, 71945>>,
     <<71948, 71955>>, <<71957, 71958>>, <<71960, 71983>>, <<71999, 71999>>,
     <<72001, 72001>>, <<72016, 72025>>, <<72096, 72103>>, <<72106, 72144>>,
     <<72161, 72161>>, <<72163, 72163>>, <<72192, 72192>>, <<72203, 72242>>,
     <<72250, 72250>>, <<72272, 72272>>, <<72284, 72329>>, <<72349, 72349>>,
     <<72368, 72440>>, <<72704, 72712>>, <<72714, 72750>>, <<72768, 72768>>,
     <<72784, 72812>>, <<72818, 72847>>, <<72960, 72966>>, <<72968, 72969>>,
     <<72971, 73008>>, <<73030, 73030>>, <<73040, 73049>>, <<73056, 73061>>,
     <<73063, 73064>>, <<73066, 73097>>, <<73112, 73112>>, <<73120, 73129>>,
     <<73440, 73458>>, <<73648, 73648>>, <<73664, 73684>>, <<73728, 74649>>,
     <<74752, 74862>>, <<74880, 75075>>, <<77712, 77808>>, <<77824, 78894>>,
     <<82944, 83526>>, <<92160, 92728>>, <<92736, 92766>>, <<92768, 92777>>,
     <<92784, 92862>>, <<92864, 92873>>, <<92880, 92909>>, <<92928, 92975>>,
     <<92992, 92995>>, <<93008, 93017>>, <<93019, 93025>>, <<93027, 93047>>,
     <<93053, 93071>>, <<93760, 93846>>, <<93952, 94026>>, <<94032, 94032>>,
     <<94099, 94111>>, <<94176, 94177>>, <<94179, 94179>>, <<94208, 100343>>,
     <<100352, 101589>>, <<101632, 101640>>, <<110576, 110579>>,
     <<110581, 110587>>, <<110589, 110590>>, <<110592, 110882>>,
     <<110928, 110930>>, <<110948, 110951>>, <<110960, 111355>>,
     <<113664, 113770>>, <<113776, 113788>>, <<113792, 113800>>,
     <<113808, 113817>>, <<119520, 119539>>, <<119648, 119672>>,
     <<119808, 119892>>, <<119894, 119964>>, <<119966, 119967>>,
     <<119970, 119970>>, <<119973, 119974>>, <<119977, 119980>>,
     <<119982, 119993>>, <<119995, 119995>>, <<119997, 120003>>,
     <<120005, 120069>>, <<120071, 120074>>, <<120077, 120084>>,
     <<120086, 120092>>, <<120094, 120121>>, <<120123, 120126>>,
     <<120128, 120132>>, <<120134, 120134>>, <<120138, 120144>>,
     <<120146, 120485>>, <<120488, 120512>>, <<120514, 120538>>,
     <<120540, 120570>>, <<120572, 120596>>, <<120598, 120628>>,
     <<120630, 120654>>, <<120656, 120686>>, <<120688, 120712>>,
     <<120714, 120744>>, <<120746, 120770>>, <<120772, 120779>>,
     <<120782, 120831>>, <<122624, 122654>>, <<123136, 123180>>,
     <<123191, 123197>>, <<123200, 123209>>, <<123214, 123214>>,
     <<123536, 123565>>, <<123584, 123627>>, <<123632, 123641>>,
     <<124896, 124902>>, <<124904, 124907>>, <<124909, 124910>>,
     <<124912, 124926>>, <<124928, 125124>>, <<125127, 125135>>,
     <<125184, 125251>>, <<125259, 125259>>, <<125264, 125273>>,
     <<126065, 126123>>, <<126125, 126127>>, <<126129, 126132>>,
     <<126209, 126253>>, <<126255, 126269>>, <<126464, 126467>>,
     <<126469, 126495>>, <<126497, 126498>>, <<126500, 126500>>,
     <<126503, 126503>>, <<126505, 126514>>, <<126516, 126519>>,
     <<126521, 126521>>, <<126523, 126523>>, <<126530, 126530>>,
     <<126535, 126535>>, <<126537, 126537>>, <<126539, 126539>>,
     <<126541, 126543>>, <<126545, 126546>>, <<126548, 126548>>,
     <<126551, 126551>>, <<126553, 126553>>, <<126555, 126555>>,
     <<126557, 126557>>, <<126559, 126559>>, <<126561, 126562>>,
     <<126564, 126564>>, <<126567, 126570>>, <<126572, 126578>>,
     <<126580, 126583>>, <<126585, 126588>>, <<126590, 126590>>,
     <<126592, 126601>>, <<126603, 126619>>, <<126625, 126627>>,
     <<126629, 126633>>, <<126635, 126651>>, <<127232, 127244>>,
     <<130032, 130041>>, <<131072, 173791>>, <<173824, 177976>>,
     <<177984, 178205>>, <<178208, 183969>>, <<183984, 191456>>,
     <<194560, 195101>>, <<196608, 201546>>}

\* the regex class \w of a str pattern: the underscore and the characters
\* str.isalnum holds for
WordChars ==
    AsciiWordChars \cup {CharOf(n) : n \in UNION {r[1]..r[2] : r \in WordRanges}}

\* what \w matches in re.sub(r"(\w{15})", ...)
IsWordChar(c) == c \in WordChars

\* the emphasis markers: asterisk, underscore, backtick
IsMarker(c) == c \in {"*", "_", Tick}

Min(S) == CHOOSE m \in S : \A n \in S : m <= n

Max(S) == CHOOSE m \in S : \A n \in S : m >= n

RECURSIVE LStrip(_)
LStrip(s) ==
    IF s # <<>> /\ IsSpace(Head(s)) THEN LStrip(Tail(s)) ELSE s

RECURSIVE RStrip(_)
RStrip(s) ==
    IF s # <<>> /\ IsSpace(s[Len(s)]) THEN RStrip(SubSeq(s, 1, Len(s) - 1)) ELSE s

Strip(s) == LStrip(RStrip(s))

\* str.startswith
StartsWith(s, p) == Len(s) >= Len(p) /\ SubSeq(s, 1, Len(p)) = p

\* s[n:]
DropFirst(s, n) == SubSeq(s, n + 1, Len(s))

(***************************************************************************)
(* _sanitize_inline_markup: five re.sub passes that replace a delimited    *)
(* span by its content, one that deletes the markers left, then strip.     *)
(* re.sub scans from the left and replaces non-overlapping matches; "."    *)
(* matches any character but "\n"; ".+?" is lazy, a run "+" is greedy.   *)
(***************************************************************************)
\* the delimiter d stands at position i of s
HasAt(s, i, d) == i + Len(d) - 1 <= Len(s) /\ SubSeq(s, i, i + Len(d) - 1) = d

\* the lengths m >= 1 that (.+?) can take from position g when d must follow it
GroupLens(s, g, d) ==
    {m \in 1..(Len(s) - g + 1) :
        /\ HasAt(s, g + m, d)
        /\ \A j \in g..(g + m - 1) : s[j] # "\n"}

\* re.sub(d (.+?) d, r"\1", s) from position i on, d a literal delimiter
RECURSIVE SubDelimited(_, _, _)
SubDelimited(s, i, d) ==
    IF i > Len(s) THEN <<>>
    ELSE LET g == i + Len(d)
             ms == IF HasAt(s, i, d) THEN GroupLens(s, g, d) ELSE {}
         IN  IF ms = {} THEN <<s[i]>> \o SubDelimited(s, i + 1, d)
             ELSE SubSeq(s, g, g + Min(ms) - 1)
                      \o SubDelimited(s, g + Min(ms) + Len(d), d)

\* the length of the run of backticks that starts at position i
RECURSIVE TickRun(_, _)
TickRun(s, i) ==
    IF i <= Len(s) /\ s[i] = Tick THEN 1 + TickRun(s, i + 1) ELSE 0

\* the lengths k of the opening run at position i for which the rest matches
TickOpenings(s, i) ==
    {k \in 1..TickRun(s, i) : GroupLens(s, i + k, <<Tick>>) # {}}

\* the backtick pass, from position i on: the opening run takes the
\* longest run that lets the rest match, the group the shortest span, and the
\* closing run all the backticks that follow
RECURSIVE SubTicks(_, _)
SubTicks(s, i) ==
    IF i > Len(s) THEN <<>>
    ELSE IF TickOpenings(s, i) = {} THEN <<s[i]>> \o SubTicks(s, i + 1)
    ELSE LET g == i + Max(TickOpenings(s, i))
             m == Min(GroupLens(s, g, <<Tick>>))
         IN  SubSeq(s, g, g + m - 1) \o SubTicks(s, g + m + TickRun(s, g + m))

\* the variant whose class forgets the backtick
RemoveMarkersButTicks(s) == SelectSeq(s, LAMBDA c : c \notin {"*", "_"})

\* the pass that deletes every marker left
RemoveMarkers(s) == SelectSeq(s, LAMBDA c : ~IsMarker(c))

\* the variant that forgets the last pass
SanitizeKeepingStrays(s) ==
    IF s = <<>> \/ s = None THEN s
    ELSE LET s1 == SubTicks(s, 1)
             s2 == SubDelimited(s1, 1, <<"*", "*">>)
             s3 == SubDelimited(s2, 1, <<"_", "_">>)
             s4 == SubDelimited(s3, 1, <<"*">>)
             s5 == SubDelimited(s4, 1, <<"_">>)
         IN  Strip(s5)

_sanitize_inline_markup(s) ==
    IF s = <<>> \/ s = None THEN s
    ELSE LET s1 == SubTicks(s, 1)
             s2 == SubDelimited(s1, 1, <<"*", "*">>)
             s3 == SubDelimited(s2, 1, <<"_", "_">>)
             s4 == SubDelimited(s3, 1, <<"*">>)
             s5 == SubDelimited(s4, 1, <<"_">>)
             s6 == RemoveMarkers(s5)
         IN  Strip(s6)

(***************************************************************************)
(* parse_txt_structure                                                     *)
(***************************************************************************)
\* str.splitlines: "\r\n" is one boundary, and no empty last line is added
RECURSIVE SplitLines(_)
SplitLines(s) ==
    LET brk == {i \in 1..Len(s) : IsLineBreak(s[i])}
    IN  IF s = <<>> THEN <<>>
        ELSE IF brk = {} THEN <<s>>
        ELSE LET i == Min(brk)
                 n == IF s[i] = "\r" /\ i < Len(s) /\ s[i + 1] = "\n" THEN 2 ELSE 1
             IN  <<SubSeq(s, 1, i - 1)>> \o SplitLines(SubSeq(s, i + n, Len(s)))

\* the variant whose first test forgets the space after the marker
BlockOfLineLoosePrefix(line) ==
    LET stripped == LStrip(line)
    IN  IF StartsWith(stripped, <<"#">>)
        THEN [type |-> "h1", text |-> _sanitize_inline_markup(DropFirst(stripped, 2))]
        ELSE IF StartsWith(stripped, <<"-", " ">>)
        THEN [type |-> "bullet", text |-> _sanitize_inline_markup(DropFirst(stripped, 2))]
        ELSE [type |-> "p", text |-> _sanitize_inline_markup(stripped)]

\* the if/elif chain over one right-stripped, non-empty line
BlockOfLine(line) ==
    LET stripped == LStrip(line)
    IN  IF StartsWith(stripped, <<"#", " ">>)
        THEN [type |-> "h1", text |-> _sanitize_inline_markup(DropFirst(stripped, 2))]
        ELSE IF StartsWith(stripped, <<"#", "#", " ">>)
        THEN [type |-> "h2", text |-> _sanitize_inline_markup(DropFirst(stripped, 3))]
        ELSE IF StartsWith(stripped, <<"#", "#", "#", " ">>)
        THEN [type |-> "h3", text |-> _sanitize_inline_markup(DropFirst(stripped, 4))]
        ELSE IF StartsWith(stripped, <<"-", " ">>)
        THEN [type |-> "bullet", text |-> _sanitize_inline_markup(DropFirst(stripped, 2))]
        ELSE [type |-> "p", text |-> _sanitize_inline_markup(stripped)]

\* the variant that tests the raw line, not the right-stripped one, for emptiness
SkipsLineUnstripped(raw_line) == raw_line = <<>>

\* "if not line: continue", line being raw_line.rstrip()
SkipsLine(raw_line) == RStrip(raw_line) = <<>>

\* the for loop over the lines
RECURSIVE ParseLines(_)
ParseLines(ls) ==
    IF ls = <<>> THEN <<>>
    ELSE IF SkipsLine(Head(ls)) THEN ParseLines(Tail(ls))
    ELSE <<BlockOfLine(RStrip(Head(ls)))>> \o ParseLines(Tail(ls))

parse_txt_structure(text) ==
    IF text = None THEN <<>> ELSE ParseLines(SplitLines(text))

(***************************************************************************)
(* The greedy line wrapper: _lines_for_paragraph, and the loop written     *)
(* inline in txt_to_pptx                                                   *)
(***************************************************************************)
\* the first position from i on where s stops being (space = TRUE) or not being
\* (space = FALSE) whitespace; Len(s) + 1 if it never does
SpaceRunEnd(s, i, space) ==
    CHOOSE j \in i..(Len(s) + 1) :
        /\ j > Len(s) \/ IsSpace(s[j]) # space
        /\ \A k \in i..(j - 1) : IsSpace(s[k]) = space

\* the words of s from position i on
RECURSIVE SplitFrom(_, _)
SplitFrom(s, i) ==
    LET a == SpaceRunEnd(s, i, TRUE)
        b == SpaceRunEnd(s, a, FALSE)
    IN  IF a > Len(s) THEN <<>>
        ELSE <<SubSeq(s, a, b - 1)>> \o SplitFrom(s, b)

\* str.split(): the maximal runs of characters that are not whitespace
Split(s) == SplitFrom(s, 1)

\* the variant that forgets the separator
HelperFitsNoSeparator(cur, w, chars_per_line) == Len(cur) + Len(w) <= chars_per_line

\* len(cur) + 1 + len(w) <= chars_per_line
HelperFits(cur, w, chars_per_line) == Len(cur) + 1 + Len(w) <= chars_per_line

\* the for loop of _lines_for_paragraph over words[1:]
RECURSIVE HelperLoop(_, _, _, _)
HelperLoop(words, cur, lines, chars_per_line) ==
    IF words = <<>> THEN Append(lines, cur)
    ELSE IF HelperFits(cur, Head(words), chars_per_line)
    THEN HelperLoop(Tail(words), cur \o <<" ">> \o Head(words), lines, chars_per_line)
    ELSE HelperLoop(Tail(words), Head(words), Append(lines, cur), chars_per_line)

\* words[0] of an empty list raises IndexError
IndexError == <<"IndexError">>

_lines_for_paragraph(text, chars_per_line) ==
    IF text = <<>> \/ text = None THEN << <<>> >>
    ELSE IF Split(text) = <<>> THEN IndexError
    ELSE HelperLoop(Tail(Split(text)), Head(Split(text)), <<>>, chars_per_line)

\* the for loop over words of txt_to_pptx
RECURSIVE InlineLoop(_, _, _, _)
InlineLoop(words, cur, lines, char_per_line) ==
    IF words = <<>> THEN (IF cur # <<>> THEN Append(lines, cur) ELSE lines)
    ELSE LET joined == Strip(cur \o <<" ">> \o Head(words))
         IN  IF Len(joined) <= char_per_line
             THEN InlineLoop(Tail(words), joined, lines, char_per_line)
             ELSE InlineLoop(Tail(words), Head(words), Append(lines, cur), char_per_line)

\* the lines the loop of txt_to_pptx computes for the softened text tx
InlineLines(tx, char_per_line) == InlineLoop(Split(tx), <<>>, <<>>, char_per_line)

(***************************************************************************)
(* txt_to_pptx.  A slide is the sequence of the text boxes added to it, a  *)
(* box being its role and the paragraphs written into it: the title box of *)
(* the cover, the body box new_slide makes, the box of a heading, and the  *)
(* second body box of a Heading2 slide.  tf names the active body box by   *)
(* its slide and its place on the slide.  placed records, for each block   *)
(* processed, the slide its text was drawn on, the needed-line count the   *)
(* loop computed for it and the number of lines it was wrapped into.       *)
(***************************************************************************)
CHAR_PER_LINE == 55

TEXT_BOX_HEIGHT_IN == 5

FONT_PT == 16

\* int((TEXT_BOX_HEIGHT.inches * 72) // LINE_HEIGHT_PT), LINE_HEIGHT_PT = FONT_PT * 1.3
MAX_LINES == (TEXT_BOX_HEIGHT_IN * 72 * 10) \div (FONT_PT * 13)

\* the run of word characters after which soften inserts a soft hyphen
SOFT_RUN == 15

\* the first position from i on where text stops being (word = TRUE) or not being
\* (word = FALSE) word characters; Len(text) + 1 if it never does
RunEnd(text, i, word) ==
    CHOOSE j \in i..(Len(text) + 1) :
        /\ j > Len(text) \/ IsWordChar(text[j]) # word
        /\ \A k \in i..(j - 1) : IsWordChar(text[k]) = word

\* the variant that breaks only a run that goes on after 15 word characters
RECURSIVE SoftenOnlyLonger(_, _)
SoftenOnlyLonger(text, i) ==
    IF i > Len(text) THEN <<>>
    ELSE IF RunEnd(text, i, TRUE) - i > SOFT_RUN
    THEN SubSeq(text, i, i + SOFT_RUN - 1) \o <<SHY>> \o SoftenOnlyLonger(text, i + SOFT_RUN)
    ELSE LET j == RunEnd(text, RunEnd(text, i, TRUE), FALSE)
         IN  SubSeq(text, i, j - 1) \o SoftenOnlyLonger(text, j)

\* re.sub(r"(\w{15})", "\\1\u00AD", text) from position i on: a match is 15 word
\* characters in a row, so none starts in a stretch of other characters nor in
\* a run of word characters shorter than 15, and such a stretch is copied whole
RECURSIVE SoftenFrom(_, _)
SoftenFrom(text, i) ==
    IF i > Len(text) THEN <<>>
    ELSE IF RunEnd(text, i, TRUE) - i >= SOFT_RUN
    THEN SubSeq(text, i, i + SOFT_RUN - 1) \o <<SHY>> \o SoftenFrom(text, i + SOFT_RUN)
    ELSE LET j == RunEnd(text, RunEnd(text, i, TRUE), FALSE)
         IN  SubSeq(text, i, j - 1) \o SoftenFrom(text, j)

soften(text) == SoftenFrom(text, 1)

\* needed = max(1, len(lines))
Needed(lines) == IF Len(lines) > 1 THEN Len(lines) ELSE 1

Box(role, paras) == [role |-> role, paras |-> paras]

\* the cover: a blank slide with the title in a text box
CoverSlide(t) == [kind |-> "cover", boxes |-> <<Box("title", <<t>>)>>]

\* a text box has one paragraph, with no text, when add_textbox has made it,
\* and tf.clear() leaves one such paragraph
ClearedFrame == << <<>> >>

\* prs.slides.add_slide(prs.slide_layouts[6]): a slide with no text box
AddSlide(st, kind) == [st EXCEPT !.slides = Append(@, [kind |-> kind, boxes |-> <<>>])]

\* new_slide: a slide with one body box, cleared, which becomes the active one
new_slide(st) ==
    [st EXCEPT !.slides = Append(@, [kind |-> "content",
                                     boxes |-> <<Box("body", ClearedFrame)>>]),
               !.tf = [slide |-> Len(st.slides) + 1, box |-> 1]]

\* slide.shapes.add_textbox on the current slide
AddBox(st, box) ==
    [st EXCEPT !.slides[Len(st.slides)].boxes = Append(@, box)]

\* the variants of the capacity test: one line too many, and the counter alone
NeedsNewSlideOffByOne(lines_needed, used) == lines_needed + used > MAX_LINES + 1

NeedsNewSlideIgnoringNeed(lines_needed, used) == used > MAX_LINES

\* lines_needed + used_lines > MAX_LINES
NeedsNewSlide(lines_needed, used) == lines_needed + used > MAX_LINES

\* the variant that makes the new slide and goes on writing in the old region
ensure_space_in_old_region(st, lines_needed) ==
    IF NeedsNewSlide(lines_needed, st.used_lines)
    THEN [new_slide(st) EXCEPT !.tf = st.tf, !.used_lines = 0]
    ELSE st

\* ensure_space: a new slide and used_lines = 0 if the lines do not fit
ensure_space(st, lines_needed) ==
    IF NeedsNewSlide(lines_needed, st.used_lines)
    THEN [new_slide(st) EXCEPT !.used_lines = 0]
    ELSE st

\* what "slide, tf = new_slide()" leaves when a statement of new_slide raises:
\* nothing (line 386), the slide without a text box (387-395), the slide with
\* its text box (397-400); tf is bound by the caller, once new_slide has returned
new_slide_raising(st) ==
    {st, AddSlide(st, "content"),
     AddBox(AddSlide(st, "content"), Box("body", ClearedFrame))}

\* the variant that leaves the heading slide the active one
Heading1NoContentSlide(st, tx) ==
    LET s1 == new_slide(st)
    IN  [AddBox(s1, Box("h1", <<tx>>)) EXCEPT !.used_lines = 0]

\* the branch t == "h1"
Heading1(st, tx) ==
    LET s1 == new_slide(st)
        s2 == AddBox(s1, Box("h1", <<tx>>))
    IN  [new_slide(s2) EXCEPT !.used_lines = 0]

\* what the branch t == "h1" leaves when one of its statements raises: the first
\* new_slide() raises (448), or the slide is there and the heading box is not
\* (449), is empty (450-452) or holds tx (453-455), or the second new_slide()
\* raises (457); used_lines is set last
Heading1Raising(st, tx) ==
    LET s1 == new_slide(st)
        s2 == AddBox(s1, Box("h1", <<tx>>))
    IN  new_slide_raising(st) \cup {s1, AddBox(s1, Box("h1", ClearedFrame)), s2}
            \cup new_slide_raising(s2)

\* the variant that leaves the text region of the slide before the active one
Heading2KeepingRegion(st, tx) ==
    LET s1 == new_slide(st)
        s2 == AddBox(s1, Box("h2", <<tx>>))
        s3 == AddBox(s2, Box("body", ClearedFrame))
    IN  [s3 EXCEPT !.tf = st.tf, !.used_lines = 0]

\* the branch t == "h2"
Heading2(st, tx) ==
    LET s1 == new_slide(st)
        s2 == AddBox(s1, Box("h2", <<tx>>))
        s3 == AddBox(s2, Box("body", ClearedFrame))
    IN  [s3 EXCEPT !.tf = [slide |-> Len(s3.slides), box |-> 3], !.used_lines = 0]

\* what the branch t == "h2" leaves when one of its statements raises:
\* new_slide() raises (462), or the slide is there and the heading box is not
\* (463), is empty (464-466) or holds tx (467-471), or the text region under it
\* is made and not yet the active one (473), or is the active one (474-476);
\* used_lines is set last
Heading2Raising(st, tx) ==
    LET s1 == new_slide(st)
        s2 == AddBox(s1, Box("h2", <<tx>>))
        s3 == AddBox(s2, Box("body", ClearedFrame))
    IN  new_slide_raising(st)
            \cup {s1, AddBox(s1, Box("h2", ClearedFrame)), s2, s3,
                  [s3 EXCEPT !.tf = [slide |-> Len(s3.slides), box |-> 3]]}

\* the variant that fills the active box and puts the lines left on a new slide
ContentSplitting(st, lines) ==
    LET room == IF MAX_LINES > st.used_lines THEN MAX_LINES - st.used_lines ELSE 0
        s1 == [st EXCEPT !.slides[st.tf.slide].boxes[st.tf.box].paras =
                             @ \o SubSeq(lines, 1, Min({room, Len(lines)}))]
        s2 == new_slide(s1)
    IN  IF Len(lines) <= room
        THEN [s1 EXCEPT !.used_lines = @ + Needed(lines)]
        ELSE [s2 EXCEPT !.slides[s2.tf.slide].boxes[s2.tf.box].paras =
                            @ \o SubSeq(lines, room + 1, Len(lines)),
                        !.used_lines = Len(lines) - room]

\* normal content: ensure_space, one tf.add_paragraph() per line after the
\* paragraphs the frame holds, used_lines += needed
Content(st, lines) ==
    LET s1 == ensure_space(st, Needed(lines))
    IN  [s1 EXCEPT !.slides[s1.tf.slide].boxes[s1.tf.box].paras = @ \o lines,
                   !.used_lines = @ + Needed(lines)]

\* what the turn on normal content leaves when one of its statements raises:
\* the new_slide() of ensure_space raises (413), or j lines of the block are
\* placed and tf.add_paragraph() raises for the next (486), or has added a
\* paragraph that is still empty (487), or the j-th is placed and its font is
\* not set (488-491); used_lines is added to last
ContentRaising(st, lines) ==
    LET s1 == ensure_space(st, Needed(lines))
        With(ps) == [s1 EXCEPT !.slides[s1.tf.slide].boxes[s1.tf.box].paras = @ \o ps]
    IN  (IF NeedsNewSlide(Needed(lines), st.used_lines) THEN new_slide_raising(st) ELSE {})
            \cup {With(SubSeq(lines, 1, j)) : j \in {k \in 0..Len(lines) : lines # <<>>}}
            \cup {With(Append(SubSeq(lines, 1, j), <<>>)) : j \in 0..(Len(lines) - 1)}

RenderState == [slides |-> slides, tf |-> tf, used_lines |-> used_lines]

\* txt_to_pptx is entered: no slide, no active region
NoDeck == [slides |-> <<>>, tf |-> [slide |-> 0, box |-> 0], used_lines |-> 0]

\* the variant without a first content slide: the title box of the cover is the
\* active region
StartDeckOnCover(t) ==
    [slides |-> <<CoverSlide(t)>>, tf |-> [slide |-> 1, box |-> 1], used_lines |-> 0]

\* the deck at the head of the main loop: the cover, the first content slide,
\* used_lines = 0
StartDeck(t) ==
    new_slide([slides |-> <<CoverSlide(t)>>, tf |-> [slide |-> 0, box |-> 0],
               used_lines |-> 0])

\* what the statements before the main loop leave when one of them raises:
\* no slide (333-345), the cover without a text box (346-355), the title box
\* made (356) and bound to tf (357-361), the title written (362-364), or the
\* new_slide() of line 404 raises
StartDeckRaising(t) ==
    LET s1 == AddBox(AddSlide(NoDeck, "cover"), Box("title", ClearedFrame))
        s2 == [s1 EXCEPT !.tf = [slide |-> 1, box |-> 1]]
        s3 == [s2 EXCEPT !.slides = <<CoverSlide(t)>>]
    IN  {NoDeck, AddSlide(NoDeck, "cover"), s1, s2, s3} \cup new_slide_raising(s3)

(***************************************************************************)
(* The documents of txt_to_pdf and txt_to_docx: a story, or a document     *)
(* body, is the sequence of the elements appended to it.                   *)
(***************************************************************************)
\* Paragraph(text, style) of reportlab, doc.add_paragraph(text, style) of docx
Paragraph(text, style) ==
    [el |-> "Paragraph", style |-> style, text |-> text, items |-> <<>>, height |-> 0]

\* Spacer(1, height)
Spacer(height) ==
    [el |-> "Spacer", style |-> "", text |-> <<>>, items |-> <<>>, height |-> height]

\* PageBreak() of reportlab, doc.add_page_break() of docx
PageBreak ==
    [el |-> "PageBreak", style |-> "", text |-> <<>>, items |-> <<>>, height |-> 0]

\* ListFlowable([ListItem(Paragraph(b, BodyX)) for b in bullets])
ListFlowable(items) ==
    [el |-> "ListFlowable", style |-> "BodyX", text |-> <<>>, items |-> items, height |-> 0]

\* the variant that starts the story with a page break
StartStoryWithBreak(t) ==
    <<Paragraph(t, "TitleX"), Spacer(8), Paragraph(<<" ">>, "Bar"), Spacer(10), PageBreak>>

\* the story before the loop: the title, a spacer, the accent bar, a spacer
StartStory(t) ==
    <<Paragraph(t, "TitleX"), Spacer(8), Paragraph(<<" ">>, "Bar"), Spacer(10)>>

\* the variant that forgets to empty the buffer
flush_bullets_keeping(st) ==
    IF st.bullets # <<>>
    THEN [st EXCEPT !.story = @ \o <<ListFlowable(st.bullets), Spacer(6)>>]
    ELSE st

\* flush_bullets: the buffered bullets become one list, and the buffer is emptied
flush_bullets(st) ==
    IF st.bullets # <<>>
    THEN [story |-> st.story \o <<ListFlowable(st.bullets), Spacer(6)>>,
          bullets |-> <<>>]
    ELSE st

\* the variant that breaks the page before it flushes the bullets
PdfBlockBreakBeforeFlush(st, b) ==
    IF b.type = "h1"
    THEN [flush_bullets([st EXCEPT !.story = Append(@, PageBreak)])
             EXCEPT !.story = Append(@, Paragraph(b.text, "H1X"))]
    ELSE IF b.type = "h2"
    THEN [flush_bullets(st) EXCEPT !.story = @ \o <<Paragraph(b.text, "H2X")>>]
    ELSE IF b.type = "h3"
    THEN [flush_bullets(st) EXCEPT !.story = @ \o <<Paragraph(b.text, "H3X")>>]
    ELSE IF b.type = "bullet"
    THEN [st EXCEPT !.bullets = Append(@, b.text)]
    ELSE [flush_bullets(st) EXCEPT !.story = @ \o <<Paragraph(b.text, "BodyX"), Spacer(4)>>]

\* what the statements before the loop leave when one of them raises: the
\* story holds the first elements of its start, all four excepted
StartStoryRaising(t) ==
    {[story |-> SubSeq(StartStory(t), 1, k), bullets |-> <<>>] : k \in 0..3}

\* what flush_bullets() leaves when one of its statements raises: the list is
\* not made and the bullets are still buffered (208), or the list is in the
\* story, the buffer is empty and the Spacer is not made (210); with no
\* bullet buffered, nothing is called
flush_bullets_raising(st) ==
    IF st.bullets # <<>>
    THEN {st, [story |-> Append(st.story, ListFlowable(st.bullets)), bullets |-> <<>>]}
    ELSE {}

\* what the turn on the block b leaves when one of its statements raises:
\* flush_bullets() raises, or it has run and PageBreak() or Paragraph(tx, style)
\* raises, or the paragraph is in the story and the Spacer after it raises; a
\* turn on a bullet calls nothing that raises
PdfBlockRaising(st, b) ==
    LET s1 == flush_bullets(st)
    IN  IF b.type = "h1"
        THEN flush_bullets_raising(st) \cup {s1, [s1 EXCEPT !.story = Append(@, PageBreak)]}
        ELSE IF b.type \in {"h2", "h3"}
        THEN flush_bullets_raising(st) \cup {s1}
        ELSE IF b.type = "bullet"
        THEN {}
        ELSE flush_bullets_raising(st)
                 \cup {s1, [s1 EXCEPT !.story = Append(@, Paragraph(b.text, "BodyX"))]}

\* what the end of txt_to_pdf leaves when it raises: the flush_bullets() of
\* line 231 raises, or it has run and doc.build(story) raises
PdfBuildRaising(st) == flush_bullets_raising(st) \cup {flush_bullets(st)}

\* one turn of the loop of txt_to_pdf, on the block b
PdfBlock(st, b) ==
    IF b.type = "h1"
    THEN [flush_bullets(st) EXCEPT !.story = @ \o <<PageBreak, Paragraph(b.text, "H1X")>>]
    ELSE IF b.type = "h2"
    THEN [flush_bullets(st) EXCEPT !.story = @ \o <<Paragraph(b.text, "H2X")>>]
    ELSE IF b.type = "h3"
    THEN [flush_bullets(st) EXCEPT !.story = @ \o <<Paragraph(b.text, "H3X")>>]
    ELSE IF b.type = "bullet"
    THEN [st EXCEPT !.bullets = Append(@, b.text)]
    ELSE [flush_bullets(st) EXCEPT !.story = @ \o <<Paragraph(b.text, "BodyX"), Spacer(4)>>]

PdfState == [story |-> story, bullets |-> bullets]

\* the document before the loop of txt_to_docx: the title and a blank paragraph
StartDocument(t) == <<Paragraph(t, "TitleX"), Paragraph(<<>>, "Normal")>>

\* what the statements before the loop leave when one of them raises: an empty
\* document (240-261), or the title alone (262)
StartDocumentRaising(t) == {<<>>, <<Paragraph(t, "TitleX")>>}

\* the variant that breaks the page before a Heading2 as well
DocxBlockBreakingH2(doc, b) ==
    IF b.type = "h1" THEN doc \o <<PageBreak, Paragraph(b.text, "H1X")>>
    ELSE IF b.type = "h2" THEN doc \o <<PageBreak, Paragraph(b.text, "H2X")>>
    ELSE IF b.type = "h3" THEN Append(doc, Paragraph(b.text, "H3X"))
    ELSE IF b.type = "bullet" THEN Append(doc, Paragraph(b.text, "List Bullet"))
    ELSE Append(doc, Paragraph(b.text, "BodyX"))

\* one turn of the loop of txt_to_docx, on the block b
DocxBlock(doc, b) ==
    IF b.type = "h1" THEN doc \o <<PageBreak, Paragraph(b.text, "H1X")>>
    ELSE IF b.type = "h2" THEN Append(doc, Paragraph(b.text, "H2X"))
    ELSE IF b.type = "h3" THEN Append(doc, Paragraph(b.text, "H3X"))
    ELSE IF b.type = "bullet" THEN Append(doc, Paragraph(b.text, "List Bullet"))
    ELSE Append(doc, Paragraph(b.text, "BodyX"))

\* what the turn on the block b leaves when one of its statements raises: the
\* document as it was, or with the page break of a Heading1 (268), or with the
\* paragraph of a Bullet or of a Paragraph, whose runs (275-276) or spacing
\* (279) are set after it is added
DocxBlockRaising(doc, b) ==
    IF b.type = "h1" THEN {doc, Append(doc, PageBreak)}
    ELSE IF b.type \in {"h2", "h3"} THEN {doc}
    ELSE {doc, DocxBlock(doc, b)}

(***************************************************************************)
(* The file system and open_file.  A path is a str.  dirs holds the paths  *)
(* of the directories made; the root, the current directory and the        *)
(* directories above a directory exist too.  files maps the path of a      *)
(* file, in its shortest spelling, to what the file holds: "r.txt" for a   *)
(* file of the current directory, however the path opened was spelled.     *)
(* A place is the sequence of the names that lead to it from the root.     *)
(***************************************************************************)
\* what a file holds: raw text, a story, a document body or a deck
FileOf(format, body) == [format |-> format, body |-> body]

\* the stand-in for the current directory of the process
CWD == <<"/", "w">>

\* path.split("/") from position i on, cur being the component begun
RECURSIVE PartsFrom(_, _, _)
PartsFrom(path, i, cur) ==
    IF i > Len(path) THEN <<cur>>
    ELSE IF path[i] = "/" THEN <<cur>> \o PartsFrom(path, i + 1, <<>>)
    ELSE PartsFrom(path, i + 1, Append(cur, path[i]))

\* the names of a path: its components, the empty ones between or after
\* slashes left out
Names(path) == SelectSeq(PartsFrom(path, 1, <<>>), LAMBDA n : n # <<>>)

\* the place above a place; the root is above itself
Parent(place) == IF place = <<>> THEN <<>> ELSE SubSeq(place, 1, Len(place) - 1)

\* one name followed from a place
Step(place, n) ==
    IF n = <<".">> THEN place
    ELSE IF n = <<".", ".">> THEN Parent(place)
    ELSE Append(place, n)

\* names followed from a place, every directory on the way being there
RECURSIVE Follow(_, _)
Follow(place, names) ==
    IF names = <<>> THEN place ELSE Follow(Step(place, Head(names)), Tail(names))

\* where a path starts: the root if it is absolute, else the current directory
StartOf(path) ==
    IF path # <<>> /\ path[1] = "/" THEN <<>> ELSE Follow(<<>>, Names(CWD))

\* the place of a path whose directories exist
PlaceOf(path) == Follow(StartOf(path), Names(path))

RECURSIVE JoinNames(_)
JoinNames(names) ==
    IF names = <<>> THEN <<>>
    ELSE IF Len(names) = 1 THEN Head(names)
    ELSE Head(names) \o <<"/">> \o JoinNames(Tail(names))

\* the shortest spelling of a place: relative inside the current directory,
\* absolute elsewhere
PathTo(place) ==
    LET cwd == PlaceOf(CWD)
    IN  IF Len(place) > Len(cwd) /\ SubSeq(place, 1, Len(cwd)) = cwd
        THEN JoinNames(SubSeq(place, Len(cwd) + 1, Len(place)))
        ELSE <<"/">> \o JoinNames(place)

\* the key in files of the file a path names
FileKey(path) == PathTo(PlaceOf(path))

\* a directory is there: the root, the current directory, one that was made,
\* or one above any of these
IsDirectory(ds, place) ==
    \E d \in ds \cup {CWD} :
        \E at \in {PlaceOf(d)} :
            Len(place) <= Len(at) /\ SubSeq(at, 1, Len(place)) = place

IsFile(fs, place) == PathTo(place) \in DOMAIN fs

NoError == ""

\* the character U+0000, which no path can hold
NUL == "\\u0000"

\* the surrogates U+D800..U+DFFF, which UTF-8 does not encode
Surrogates == {CharOf(n) : n \in 55296..57343}

\* the surrogates U+DC80..U+DCFF, which stand for one byte each in a path
\* (os.fsencode, error handler surrogateescape)
EscapedBytes == {CharOf(n) : n \in 56448..56575}

\* the bytes of a character in a path: its length in UTF-8.  A character
\* beyond U+FFFF is a string of 10 characters, one from U+0080 to U+FFFF a
\* string of 6, as U+0000..U+001F and U+007F can be
ByteLen(c) ==
    IF Len(c) = 10 THEN 4
    ELSE IF Len(c) # 6 THEN 1
    ELSE IF c \in EscapedBytes \cup {CharOf(n) : n \in 0..127} THEN 1
    ELSE IF c \in {CharOf(n) : n \in 128..2047} THEN 2
    ELSE 3

\* the bytes of a path: one for each character, and one more for each
\* character of two bytes or more, of three or more, of four
ByteCount(s) ==
    Len(s) + Cardinality({i \in 1..Len(s) : ByteLen(s[i]) >= 2})
           + Cardinality({i \in 1..Len(s) : ByteLen(s[i]) >= 3})
           + Cardinality({i \in 1..Len(s) : ByteLen(s[i]) >= 4})

\* the longest name of a file or directory, and the longest path with the byte
\* that ends it, in bytes (Linux)
NAME_MAX == 255

PATH_MAX == 4096

\* a name the file system refuses
TooLong(name) == ByteCount(name) > NAME_MAX

\* the directory names of a path followed from a place, as the system does it
\* for open(): a name that is a file stops it, and so does a missing one, or
\* one too long to be looked up
RECURSIVE Walk(_, _, _, _)
Walk(ds, fs, place, names) ==
    IF names = <<>> THEN [error |-> NoError, place |-> place]
    ELSE LET next == Step(place, Head(names))
         IN  IF IsDirectory(ds, next) THEN Walk(ds, fs, next, Tail(names))
             ELSE IF IsFile(fs, next) THEN [error |-> "NotADirectoryError", place |-> place]
             ELSE IF TooLong(Head(names)) THEN [error |-> "OSError", place |-> place]
             ELSE [error |-> "FileNotFoundError", place |-> place]

\* the directory of a path: where the names before the last lead, or the error
DirectoryOf(ds, fs, path) ==
    LET names == Names(path)
    IN  Walk(ds, fs, StartOf(path), SubSeq(names, 1, Len(names) - 1))

\* open(path, "w"): the error it raises, or NoError.  The path must be one the
\* system can be given: no surrogate but the escaped bytes (UnicodeEncodeError),
\* no U+0000 (ValueError), not empty, shorter than PATH_MAX bytes (OSError,
\* "File name too long").  The names before the last are directories to be
\* found; the path must not name a directory, which it does if it ends with a
\* slash, with "." or "..", or with the name of a directory that is there;
\* and the last name must not be too long (OSError).
OpenError(ds, fs, path) ==
    LET names == Names(path)
        w == DirectoryOf(ds, fs, path)
    IN  IF \E i \in 1..Len(path) : path[i] \in Surrogates \ EscapedBytes
        THEN "UnicodeEncodeError"
        ELSE IF \E i \in 1..Len(path) : path[i] = NUL THEN "ValueError"
        ELSE IF path = <<>> THEN "FileNotFoundError"
        ELSE IF ByteCount(path) >= PATH_MAX THEN "OSError"
        ELSE IF w.error # NoError THEN w.error
        ELSE IF \/ names = <<>>
                \/ path[Len(path)] = "/"
                \/ names[Len(names)] \in {<<".">>, <<".", ".">>}
        THEN "IsADirectoryError"
        ELSE IF TooLong(names[Len(names)]) THEN "OSError"
        ELSE IF IsDirectory(ds, Step(w.place, names[Len(names)]))
        THEN "IsADirectoryError"
        ELSE NoError

\* open(path, "w") makes or empties the file
CanCreate(ds, fs, path) == OpenError(ds, fs, path) = NoError

\* f.write(text) on a file opened with encoding="utf-8": the error it raises,
\* or NoError; no surrogate can be encoded
WriteError(text) ==
    IF \E i \in 1..Len(text) : text[i] \in Surrogates THEN "UnicodeEncodeError"
    ELSE NoError

\* pick_palette(key): key.encode() raises where key holds a surrogate (UTF-8
\* encodes none), before a palette is picked; the error, or NoError
pick_palette_error(key) ==
    IF \E i \in 1..Len(key) : key[i] \in Surrogates THEN "UnicodeEncodeError"
    ELSE NoError

\* os.makedirs(path, exist_ok=True): the error it raises, or NoError.  A file
\* in the place of the directory, or of one above it, stops it.
MakedirsError(fs, path) ==
    LET names == Names(path)
    IN  IF \E k \in 1..(Len(names) - 1) :
               IsFile(fs, Follow(StartOf(path), SubSeq(names, 1, k)))
        THEN "NotADirectoryError"
        ELSE IF IsFile(fs, PlaceOf(path)) THEN "FileExistsError"
        ELSE NoError

\* the file at path is created or replaced
WriteFile(fs, path, content) ==
    [p \in (DOMAIN fs) \cup {FileKey(path)} |->
        IF p = FileKey(path) THEN content ELSE fs[p]]

\* the variant that lets the failure of the platform call out
open_file_raising(filepath, fails) ==
    [call |-> [path |-> filepath, failed |-> fails], raises |-> fails]

\* open_file: the platform call is made, and the bare except lets nothing out
open_file(filepath, fails) ==
    [call |-> [path |-> filepath, failed |-> fails], raises |-> FALSE]

(***************************************************************************)
(* file_generator and its caller                                           *)
(***************************************************************************)
\* the stand-in for Path.home() / "Documents" / "AssistantOutputs"
DEFAULT_SAVE_PATH == <<"/", "o">>

DotTxt == <<".", "t", "x", "t">>

DotPdf == <<".", "p", "d", "f">>

DotDocx == <<".", "d", "o", "c", "x">>

DotPptx == <<".", "p", "p", "t", "x">>

\* str.replace(old, new) from position i on: every occurrence, left to right
RECURSIVE ReplaceFrom(_, _, _, _)
ReplaceFrom(s, i, old, new) ==
    IF i > Len(s) THEN <<>>
    ELSE IF HasAt(s, i, old) THEN new \o ReplaceFrom(s, i + Len(old), old, new)
    ELSE <<s[i]>> \o ReplaceFrom(s, i + 1, old, new)

Replace(s, old, new) == ReplaceFrom(s, 1, old, new)

\* os.path.join(a, b)
Join(a, b) ==
    IF StartsWith(b, <<"/">>) THEN b
    ELSE IF a = <<>> \/ a[Len(a)] = "/" THEN a \o b
    ELSE a \o <<"/">> \o b

\* raw = resp.text.strip()
RawOf(resp) == Strip(resp)

\* "if not save_path": no hint, or an empty one
NoHint(hint) == hint = None \/ hint = <<>>

\* the .txt path: the hint, or the default directory joined with the topic
ResolvePath(t, hint) ==
    IF NoHint(hint)
    THEN Join(DEFAULT_SAVE_PATH, Replace(t, <<" ">>, <<"_">>) \o DotTxt)
    ELSE hint

\* os.makedirs(DEFAULT_SAVE_PATH, exist_ok=True), made when there is no hint only
DirsAfterResolve(ds, hint) ==
    IF NoHint(hint) THEN ds \cup {DEFAULT_SAVE_PATH} ELSE ds

\* the variant that renders whatever the format
RendererAlways(ft) ==
    IF ft = "docx" THEN "txt_to_docx" ELSE IF ft = "pptx" THEN "txt_to_pptx" ELSE "txt_to_pdf"

\* the if/elif chain on filetype: the renderer called, if any
RendererFor(ft) ==
    IF ft = "pdf" THEN "txt_to_pdf"
    ELSE IF ft = "docx" THEN "txt_to_docx"
    ELSE IF ft = "pptx" THEN "txt_to_pptx"
    ELSE "none"

\* out = save_path.replace(".txt", <extension>), or save_path itself
OutPath(path, ft) ==
    IF ft = "pdf" THEN Replace(path, DotTxt, DotPdf)
    ELSE IF ft = "docx" THEN Replace(path, DotTxt, DotDocx)
    ELSE IF ft = "pptx" THEN Replace(path, DotTxt, DotPptx)
    ELSE path

NoResult == [raised |-> FALSE, value |-> <<"pending">>]

Returned(value) == [raised |-> FALSE, value |-> value]

Raised(exception) == [raised |-> TRUE, value |-> <<exception>>]

\* the variant that catches the failure of the renderer and returns the path
AfterRenderSwallowing(render_pc, path) == Returned(path)

\* file_generator after the call of a renderer: there is no try, so what the
\* renderer raised is raised, and else out is returned
AfterRender(render_pc, path) ==
    IF render_pc = "failed" THEN Raised("RenderFailure") ELSE Returned(path)

\* process_with_llm around handle_tool_call: the result text of the one tool
\* call, or the one text the except clause returns
process_with_llm(result) ==
    IF result.raised
    THEN <<"An error occurred", result.value>>
    ELSE <<"file_generator", result.value>>

(***************************************************************************)
(* Inputs                                                                  *)
(***************************************************************************)
MaxSanLen == 5

MaxTextLen == 5

MaxWrapLen == 6

MaxBudget == 3

MaxWords == 3

MaxBlocks == 3

Strings(alphabet, n) == UNION {[1..k -> alphabet] : k \in 0..n}

\* texts of markers, and texts with a no-break space, which strip removes
SanInputs ==
    Strings({"a", " ", "*", "_", Tick, "\n"}, MaxSanLen)
    \cup Strings({"a", "*", "\\u00A0"}, MaxSanLen - 1)
    \cup {None}

\* texts of prefixes and lines, and texts with U+000B, which is whitespace and
\* a line boundary, and U+001F, which is whitespace and no line boundary
ParseInputs ==
    Strings({"#", "-", " ", "a", "*", "\n"}, MaxTextLen)
    \cup Strings({"#", " ", "a", "\\u000B", "\\u001F"}, MaxTextLen - 1)
    \cup {None}

\* a word of n letters
Word(n) == [i \in 1..n |-> "a"]

\* words of the given lengths, one space between them
RECURSIVE JoinWords(_)
JoinWords(lens) ==
    IF lens = <<>> THEN <<>>
    ELSE IF Len(lens) = 1 THEN Word(lens[1])
    ELSE Word(lens[1]) \o <<" ">> \o JoinWords(Tail(lens))

\* short texts at small budgets, and texts of short, half-line and oversize
\* words at the budget of txt_to_pptx
WrapInputs ==
    (Strings({"a", " "}, MaxWrapLen) \X (1..MaxBudget))
    \cup (Strings({"a", "\\u00A0", "\\u000B"}, MaxWrapLen - 2) \X (1..MaxBudget))
    \cup ({JoinWords(lens) : lens \in UNION {[1..k -> {1, 27, 28, 56}] : k \in 1..MaxWords}}
            \X {CHAR_PER_LINE})

ShortText == <<"a", "b", " ", "c", "d">>

\* a text the loop wraps into n lines: n words of 28 letters
LinesText(n) == JoinWords([i \in 1..n |-> 28])

\* one word longer than a line
LongWordText == Word(56)

MaxSoftWords == 3

\* n word characters: letters, with an underscore, a digit, and among the
\* letters one of Latin-1, an ideograph and a character above U+FFFF
SoftWord(n) ==
    [i \in 1..n |-> IF i % 7 = 3 THEN "_" ELSE IF i % 7 = 5 THEN "9"
                    ELSE IF i % 7 = 6 THEN "\\u00E9"
                    ELSE IF i % 7 = 0 THEN "\\u56FD"
                    ELSE IF i % 7 = 2 THEN "\\U00020000" ELSE "a"]

\* runs of word characters of the given lengths, sep between them
RECURSIVE SoftJoin(_, _)
SoftJoin(lens, sep) ==
    IF lens = <<>> THEN <<>>
    ELSE IF Len(lens) = 1 THEN SoftWord(lens[1])
    ELSE SoftWord(lens[1]) \o sep \o SoftJoin(Tail(lens), sep)

\* texts for soften: runs shorter than SOFT_RUN, of SOFT_RUN, one longer, and
\* longer than twice SOFT_RUN, with a space or a hyphen between them
SoftInputs ==
    {<<>>} \cup
    { SoftJoin(lens, sep) :
        lens \in UNION {[1..k -> {1, SOFT_RUN - 1, SOFT_RUN, SOFT_RUN + 1, 2 * SOFT_RUN + 1}] :
                            k \in 1..MaxSoftWords},
        sep \in {<<" ">>, <<"-">>} }

BlockPool ==
    { [type |-> "h1", text |-> ShortText],
      [type |-> "h2", text |-> ShortText],
      [type |-> "p", text |-> <<>>],
      [type |-> "p", text |-> ShortText],
      [type |-> "bullet", text |-> LinesText(8)],
      [type |-> "h3", text |-> LinesText(9)],
      [type |-> "p", text |-> LinesText(18)],
      [type |-> "bullet", text |-> LongWordText] }

BlockSeqs == UNION {[1..k -> BlockPool] : k \in 0..MaxBlocks}

\* a title, and one with a surrogate
Titles == {<<"T">>, <<"T", CharOf(56320), " ", "x">>}

MaxPdfBlocks == 4

\* two bullets that differ, and one block of each other type
PdfBlockPool ==
    { [type |-> "bullet", text |-> <<"a">>],
      [type |-> "bullet", text |-> <<"b">>],
      [type |-> "h1", text |-> <<"c">>],
      [type |-> "h2", text |-> <<"c">>],
      [type |-> "h3", text |-> <<"c">>],
      [type |-> "p", text |-> <<"c">>] }

PdfBlockSeqs == UNION {[1..k -> PdfBlockPool] : k \in 0..MaxPdfBlocks}

OutFiles == {<<"o", "u", "t">>}

\* a name of n letters
LongName(n) == [i \in 1..n |-> "a"]

\* topics: one word, two words, one that ends with ".txt", one with a slash,
\* one with the character U+0000, the shortest one that is too long a file
\* name with ".txt" added, one with a surrogate, and one with a surrogate
\* that stands for a byte in a path
Topics ==
    {<<"T">>, <<"a", " ", "b">>, <<"n", ".", "t", "x", "t">>, <<"a", "/", "b">>,
     <<"a", NUL>>, LongName(NAME_MAX + 1 - Len(DotTxt)),
     <<"a", CharOf(55296)>>, <<"a", CharOf(56448)>>}

FileTypes == {"pdf", "docx", "pptx", "txt"}

\* no hint, an empty one, a .txt file here, one in a directory that does not
\* exist, a name without extension, a name with the extension of a format, the
\* file here spelled with "./", the path of the default directory itself, a
\* file of the root spelled through the default directory, a name with a
\* surrogate
PathHints ==
    { None, <<>>,
      <<"r", ".", "t", "x", "t">>,
      <<"/", "m", "/", "r", ".", "t", "x", "t">>,
      <<"r">>,
      <<"r", ".", "p", "d", "f">>,
      <<".", "/", "r", ".", "t", "x", "t">>,
      DEFAULT_SAVE_PATH,
      DEFAULT_SAVE_PATH \o <<"/", ".", ".", "/", "r", ".", "t", "x", "t">>,
      <<"r", CharOf(55296)>> }

\* generated texts: empty, blank, one paragraph inside whitespace, one line of
\* each type, emphasis markup, a surrogate
GenTexts ==
    { <<>>,
      <<" ", "\n">>,
      <<" ", "a", "\n">>,
      <<"#", " ", "a", "\n", "#", "#", " ", "b", "\n", "#", "#", "#", " ", "c", "\n",
        "-", " ", "d", "\n", "e">>,
      <<"*", "*", "a", "*", "*", " ", "b">>,
      <<"a", CharOf(55296)>> }

\* the file systems a call can start in: the default directory missing or
\* there, or a file standing in its place
StartFileSystems ==
    { [dirs |-> {}, files |-> <<>>],
      [dirs |-> {DEFAULT_SAVE_PATH}, files |-> <<>>],
      [dirs |-> {}, files |-> WriteFile(<<>>, DEFAULT_SAVE_PATH, FileOf("text", <<"x">>))] }

(***************************************************************************)
(* The calls                                                               *)
(***************************************************************************)
SanIdle == san_pc = "idle" /\ san_in = <<>> /\ san_once = <<>> /\ san_twice = <<>>

ParseIdle == parse_pc = "idle" /\ raw = <<>> /\ out = <<>>

WrapIdle ==
    /\ wrap_pc = "idle" /\ wrap_text = <<>> /\ wrap_budget = 0
    /\ helper_lines = <<>> /\ inline_lines = <<>>

SoftIdle == soft_pc = "idle" /\ soft_text = <<>> /\ softened = <<>>

PptxIdle ==
    /\ pc = "idle" /\ title = <<>> /\ blocks = <<>> /\ idx = 0 /\ slides = <<>>
    /\ tf = [slide |-> 0, box |-> 0] /\ used_lines = 0 /\ placed = <<>>
    /\ pptx_file = <<>>

PdfIdle ==
    /\ pdf_pc = "idle" /\ pdf_file = <<>> /\ pdf_title = <<>> /\ pdf_blocks = <<>>
    /\ pdf_idx = 0
    /\ story = <<>> /\ bullets = <<>>

DocxIdle ==
    /\ docx_pc = "idle" /\ docx_file = <<>> /\ docx_title = <<>> /\ docx_blocks = <<>>
    /\ docx_idx = 0
    /\ document = <<>>

\* no directory but the current one and the root, no file, nothing opened
FsEmpty == dirs = {} /\ files = <<>> /\ writes = <<>> /\ opened = <<>>

GenIdle ==
    /\ gen_pc = "idle" /\ topic = <<>> /\ filetype = "" /\ save_path = None
    /\ resp_text = <<>> /\ gen_result = NoResult /\ llm_result = <<>>

\* _sanitize_inline_markup(s), and then again on what it returned
SanInit ==
    /\ san_pc = "start" /\ san_in \in SanInputs /\ san_once = <<>> /\ san_twice = <<>>
    /\ ParseIdle /\ WrapIdle /\ SoftIdle /\ PptxIdle /\ PdfIdle /\ DocxIdle /\ FsEmpty /\ GenIdle

SanitizeOnce ==
    /\ san_pc = "start"
    /\ san_once' = _sanitize_inline_markup(san_in)
    /\ san_pc' = "once"
    /\ UNCHANGED <<san_in, san_twice, parseVars, wrapVars, softVars, pptxVars, pdfVars, docxVars, fsVars, genVars>>

SanitizeTwice ==
    /\ san_pc = "once"
    /\ san_twice' = _sanitize_inline_markup(san_once)
    /\ san_pc' = "twice"
    /\ UNCHANGED <<san_in, san_once, parseVars, wrapVars, softVars, pptxVars, pdfVars, docxVars, fsVars, genVars>>

SanNext == SanitizeOnce \/ SanitizeTwice

SpecSanitize == SanInit /\ [][SanNext]_vars

\* parse_txt_structure(raw)
ParseInit ==
    /\ parse_pc = "start" /\ raw \in ParseInputs /\ out = <<>>
    /\ SanIdle /\ WrapIdle /\ SoftIdle /\ PptxIdle /\ PdfIdle /\ DocxIdle /\ FsEmpty /\ GenIdle

Parse ==
    /\ parse_pc = "start"
    /\ out' = parse_txt_structure(raw)
    /\ parse_pc' = "done"
    /\ UNCHANGED <<raw, sanVars, wrapVars, softVars, pptxVars, pdfVars, docxVars, fsVars, genVars>>

ParseNext == Parse

SpecParse == ParseInit /\ [][ParseNext]_vars

\* _lines_for_paragraph(text, budget), then the loop of txt_to_pptx on the same text
WrapInit ==
    /\ wrap_pc = "start"
    /\ \E input \in WrapInputs : wrap_text = input[1] /\ wrap_budget = input[2]
    /\ helper_lines = <<>> /\ inline_lines = <<>>
    /\ SanIdle /\ ParseIdle /\ SoftIdle /\ PptxIdle /\ PdfIdle /\ DocxIdle /\ FsEmpty /\ GenIdle

WrapHelper ==
    /\ wrap_pc = "start"
    /\ helper_lines' = _lines_for_paragraph(wrap_text, wrap_budget)
    /\ wrap_pc' = "helper"
    /\ UNCHANGED <<wrap_text, wrap_budget, inline_lines, sanVars, parseVars, softVars, pptxVars, pdfVars, docxVars, fsVars, genVars>>

WrapInline ==
    /\ wrap_pc = "helper"
    /\ inline_lines' = InlineLines(wrap_text, wrap_budget)
    /\ wrap_pc' = "both"
    /\ UNCHANGED <<wrap_text, wrap_budget, helper_lines, sanVars, parseVars, softVars, pptxVars, pdfVars, docxVars, fsVars, genVars>>

WrapNext == WrapHelper \/ WrapInline

SpecWrap == WrapInit /\ [][WrapNext]_vars

\* tx = soften(blk["text"])
SoftInit ==
    /\ soft_pc = "start" /\ soft_text \in SoftInputs /\ softened = <<>>
    /\ SanIdle /\ ParseIdle /\ WrapIdle /\ PptxIdle /\ PdfIdle /\ DocxIdle /\ FsEmpty /\ GenIdle

Soften ==
    /\ soft_pc = "start"
    /\ softened' = soften(soft_text)
    /\ soft_pc' = "done"
    /\ UNCHANGED <<soft_text, sanVars, parseVars, wrapVars, pptxVars, pdfVars, docxVars,
                   fsVars, genVars>>

SoftNext == Soften

SpecSoften == SoftInit /\ [][SoftNext]_vars

\* txt_to_pptx(blocks, pptx_file, title) is entered
PptxInit ==
    /\ pc = "start" /\ title \in Titles /\ blocks \in BlockSeqs /\ idx = 0
    /\ slides = NoDeck.slides /\ tf = NoDeck.tf /\ used_lines = NoDeck.used_lines
    /\ placed = <<>> /\ pptx_file \in OutFiles
    /\ SanIdle /\ ParseIdle /\ WrapIdle /\ SoftIdle /\ PdfIdle /\ DocxIdle /\ FsEmpty /\ GenIdle

\* the statements before the main loop: a palette is picked for the title,
\* the cover and the first content slide are made, used_lines is 0
PptxStart ==
    /\ pc = "start" /\ pick_palette_error(title) = NoError
    /\ \E st1 \in {StartDeck(title)} :
           slides' = st1.slides /\ tf' = st1.tf /\ used_lines' = st1.used_lines
    /\ pc' = "loop"
    /\ UNCHANGED <<title, blocks, idx, placed, pptx_file, sanVars, parseVars, wrapVars,
                   softVars, pdfVars, docxVars, fsVars, genVars>>

\* the end of one turn of the main loop: st1 is what the branch taken left, on
\* the slide the text of the block was drawn on, lines what the block wrapped into
Turn(st1, on, lines) ==
    /\ slides' = st1.slides /\ tf' = st1.tf /\ used_lines' = st1.used_lines
    /\ placed' = Append(placed, [slide |-> on, needed |-> Needed(lines),
                                 lines |-> Len(lines)])
    /\ idx' = idx + 1
    /\ UNCHANGED <<pc, title, blocks, pptx_file, sanVars, parseVars, wrapVars, softVars,
                   pdfVars, docxVars, fsVars, genVars>>

\* the lines the loop wraps the next block into, whatever its type
NextLines == InlineLines(soften(blocks[idx + 1].text), CHAR_PER_LINE)

ProcessHeading1 ==
    /\ pc = "loop" /\ idx < Len(blocks) /\ blocks[idx + 1].type = "h1"
    /\ \E lines \in {NextLines} :
       \E st1 \in {Heading1(RenderState, soften(blocks[idx + 1].text))} :
           Turn(st1, Len(slides) + 1, lines)

ProcessHeading2 ==
    /\ pc = "loop" /\ idx < Len(blocks) /\ blocks[idx + 1].type = "h2"
    /\ \E lines \in {NextLines} :
       \E st1 \in {Heading2(RenderState, soften(blocks[idx + 1].text))} :
           Turn(st1, Len(slides) + 1, lines)

ProcessContent ==
    /\ pc = "loop" /\ idx < Len(blocks) /\ blocks[idx + 1].type \notin {"h1", "h2"}
    /\ \E lines \in {NextLines} :
       \E st1 \in {Content(RenderState, lines)} :
           Turn(st1, st1.tf.slide, lines)

\* prs.save(pptx_file) once the loop is over, where the file can be made (where
\* it cannot, the save is a call that raises)
Save ==
    /\ pc = "loop" /\ idx = Len(blocks) /\ CanCreate(dirs, files, pptx_file)
    /\ pc' = "saved"
    /\ files' = WriteFile(files, pptx_file, FileOf("pptx", slides))
    /\ writes' = Append(writes, pptx_file)
    /\ UNCHANGED <<title, blocks, idx, slides, tf, used_lines, placed, pptx_file,
                   dirs, opened, sanVars, parseVars, wrapVars, softVars, pdfVars, docxVars, genVars>>

\* what a raise leaves where txt_to_pptx stands: before the loop, in the turn
\* on the next block, or at prs.save(pptx_file), which raises with the deck as
\* the loop left it.  Where pick_palette(title), the first statement, raises,
\* nothing is made.
PptxRaising ==
    IF pc = "start" /\ pick_palette_error(title) # NoError THEN {NoDeck}
    ELSE IF pc = "start" THEN StartDeckRaising(title)
    ELSE IF idx = Len(blocks) THEN {RenderState}
    ELSE IF blocks[idx + 1].type = "h1"
    THEN Heading1Raising(RenderState, soften(blocks[idx + 1].text))
    ELSE IF blocks[idx + 1].type = "h2"
    THEN Heading2Raising(RenderState, soften(blocks[idx + 1].text))
    ELSE ContentRaising(RenderState, NextLines)

\* a statement that calls the library raises, the statements before it have
\* run, and nothing in txt_to_pptx catches it
PptxFails ==
    /\ pc \in {"start", "loop"}
    /\ \E st1 \in PptxRaising :
           slides' = st1.slides /\ tf' = st1.tf /\ used_lines' = st1.used_lines
    /\ pc' = "failed"
    /\ UNCHANGED <<title, blocks, idx, placed, pptx_file,
                   sanVars, parseVars, wrapVars, softVars, pdfVars, docxVars, fsVars, genVars>>

\* open_file(pptx_file), the last statement; the platform call fails or not
PptxOpen ==
    /\ pc = "saved"
    /\ \E fails \in BOOLEAN :
        \E r \in {open_file(pptx_file, fails)} :
           /\ opened' = Append(opened, r.call)
           /\ pc' = IF r.raises THEN "failed" ELSE "returned"
    /\ UNCHANGED <<title, blocks, idx, slides, tf, used_lines, placed, pptx_file,
                   dirs, files, writes, sanVars, parseVars, wrapVars, softVars, pdfVars, docxVars,
                   genVars>>

PptxNext ==
    PptxStart \/ ProcessHeading1 \/ ProcessHeading2 \/ ProcessContent \/ Save \/ PptxFails \/ PptxOpen

SpecPptx == PptxInit /\ [][PptxNext]_vars

\* txt_to_pdf(blocks, pdf_file, title) is entered
PdfInit ==
    /\ pdf_pc = "start" /\ pdf_file \in OutFiles /\ pdf_title \in Titles
    /\ pdf_blocks \in PdfBlockSeqs /\ pdf_idx = 0 /\ story = <<>> /\ bullets = <<>>
    /\ SanIdle /\ ParseIdle /\ WrapIdle /\ SoftIdle /\ PptxIdle /\ DocxIdle /\ FsEmpty /\ GenIdle

\* the statements before the loop: a palette is picked for the title, the
\* story starts, no bullet is buffered
PdfStart ==
    /\ pdf_pc = "start" /\ pick_palette_error(pdf_title) = NoError
    /\ story' = StartStory(pdf_title) /\ bullets' = <<>>
    /\ pdf_pc' = "loop"
    /\ UNCHANGED <<pdf_file, pdf_title, pdf_blocks, pdf_idx, sanVars, parseVars, wrapVars,
                   softVars, pptxVars, docxVars, fsVars, genVars>>

\* one turn of the loop
PdfTurn ==
    /\ pdf_pc = "loop" /\ pdf_idx < Len(pdf_blocks)
    /\ \E st1 \in {PdfBlock(PdfState, pdf_blocks[pdf_idx + 1])} :
           story' = st1.story /\ bullets' = st1.bullets
    /\ pdf_idx' = pdf_idx + 1
    /\ UNCHANGED <<pdf_pc, pdf_file, pdf_title, pdf_blocks, sanVars, parseVars, wrapVars, softVars, pptxVars,
                   docxVars, fsVars, genVars>>

\* the loop is over: flush_bullets() and doc.build(story), where the file can
\* be made
PdfBuild ==
    /\ pdf_pc = "loop" /\ pdf_idx = Len(pdf_blocks) /\ CanCreate(dirs, files, pdf_file)
    /\ \E st1 \in {flush_bullets(PdfState)} :
           /\ story' = st1.story /\ bullets' = st1.bullets
           /\ files' = WriteFile(files, pdf_file, FileOf("pdf", st1.story))
    /\ writes' = Append(writes, pdf_file)
    /\ pdf_pc' = "built"
    /\ UNCHANGED <<pdf_file, pdf_title, pdf_blocks, pdf_idx, dirs, opened, sanVars, parseVars,
                   wrapVars, softVars, pptxVars, docxVars, genVars>>

\* what a raise leaves where txt_to_pdf stands: before the loop, in the turn on
\* the next block, or at the end (doc.build(story) raises where the file
\* cannot be made, and writes no file).  Where pick_palette(title), the first
\* statement, raises, nothing is made.
PdfRaising ==
    IF pdf_pc = "start" /\ pick_palette_error(pdf_title) # NoError
    THEN {[story |-> <<>>, bullets |-> <<>>]}
    ELSE IF pdf_pc = "start" THEN StartStoryRaising(pdf_title)
    ELSE IF pdf_idx = Len(pdf_blocks) THEN PdfBuildRaising(PdfState)
    ELSE PdfBlockRaising(PdfState, pdf_blocks[pdf_idx + 1])

\* a statement that calls the library raises, the statements before it have
\* run, and nothing in txt_to_pdf catches it
PdfFails ==
    /\ pdf_pc \in {"start", "loop"}
    /\ \E st1 \in PdfRaising : story' = st1.story /\ bullets' = st1.bullets
    /\ pdf_pc' = "failed"
    /\ UNCHANGED <<pdf_file, pdf_title, pdf_blocks, pdf_idx, sanVars, parseVars,
                   wrapVars, softVars, pptxVars, docxVars, fsVars, genVars>>

\* the variant that opens the file at the head of the loop, before it is built
PdfOpenBeforeBuild ==
    /\ pdf_pc = "loop" /\ pdf_idx = 0 /\ opened = <<>>
    /\ \E fails \in BOOLEAN :
        \E r \in {open_file(pdf_file, fails)} : opened' = Append(opened, r.call)
    /\ UNCHANGED <<pdf_pc, pdf_file, pdf_title, pdf_blocks, pdf_idx, story, bullets, dirs, files,
                   writes, sanVars, parseVars, wrapVars, softVars, pptxVars, docxVars, genVars>>

\* open_file(pdf_file), the last statement
PdfOpen ==
    /\ pdf_pc = "built"
    /\ \E fails \in BOOLEAN :
        \E r \in {open_file(pdf_file, fails)} :
           /\ opened' = Append(opened, r.call)
           /\ pdf_pc' = IF r.raises THEN "failed" ELSE "returned"
    /\ UNCHANGED <<pdf_file, pdf_title, pdf_blocks, pdf_idx, story, bullets, dirs, files, writes,
                   sanVars, parseVars, wrapVars, softVars, pptxVars, docxVars, genVars>>

PdfNext == PdfStart \/ PdfTurn \/ PdfBuild \/ PdfFails \/ PdfOpen

SpecPdf == PdfInit /\ [][PdfNext]_vars

\* txt_to_docx(blocks, docx_file, title) is entered
DocxInit ==
    /\ docx_pc = "start" /\ docx_file \in OutFiles /\ docx_title \in Titles
    /\ docx_blocks \in PdfBlockSeqs /\ docx_idx = 0 /\ document = <<>>
    /\ SanIdle /\ ParseIdle /\ WrapIdle /\ SoftIdle /\ PptxIdle /\ PdfIdle /\ FsEmpty /\ GenIdle

\* the statements before the loop: a palette is picked for the title, then
\* the styles, the title, a blank paragraph
DocxStart ==
    /\ docx_pc = "start" /\ pick_palette_error(docx_title) = NoError
    /\ document' = StartDocument(docx_title)
    /\ docx_pc' = "loop"
    /\ UNCHANGED <<docx_file, docx_title, docx_blocks, docx_idx, sanVars, parseVars, wrapVars,
                   softVars, pptxVars, pdfVars, fsVars, genVars>>

\* one turn of the loop of txt_to_docx
DocxTurn ==
    /\ docx_pc = "loop" /\ docx_idx < Len(docx_blocks)
    /\ document' = DocxBlock(document, docx_blocks[docx_idx + 1])
    /\ docx_idx' = docx_idx + 1
    /\ UNCHANGED <<docx_pc, docx_file, docx_title, docx_blocks, sanVars, parseVars, wrapVars, softVars,
                   pptxVars, pdfVars, fsVars, genVars>>

\* the loop is over: doc.save(docx_file), where the file can be made
DocxSave ==
    /\ docx_pc = "loop" /\ docx_idx = Len(docx_blocks)
    /\ CanCreate(dirs, files, docx_file)
    /\ files' = WriteFile(files, docx_file, FileOf("docx", document))
    /\ writes' = Append(writes, docx_file)
    /\ docx_pc' = "saved"
    /\ UNCHANGED <<docx_file, docx_title, docx_blocks, docx_idx, document, dirs, opened, sanVars,
                   parseVars, wrapVars, softVars, pptxVars, pdfVars, genVars>>

\* what a raise leaves where txt_to_docx stands: before the loop, in the turn on
\* the next block, or at doc.save(docx_file), which raises with the document
\* as the loop left it.  Where pick_palette(title), the first statement,
\* raises, nothing is made.
DocxRaising ==
    IF docx_pc = "start" /\ pick_palette_error(docx_title) # NoError THEN {<<>>}
    ELSE IF docx_pc = "start" THEN StartDocumentRaising(docx_title)
    ELSE IF docx_idx = Len(docx_blocks) THEN {document}
    ELSE DocxBlockRaising(document, docx_blocks[docx_idx + 1])

\* a statement that calls the library raises, the statements before it have
\* run, and nothing in txt_to_docx catches it
DocxFails ==
    /\ docx_pc \in {"start", "loop"}
    /\ document' \in DocxRaising
    /\ docx_pc' = "failed"
    /\ UNCHANGED <<docx_file, docx_title, docx_blocks, docx_idx, sanVars, parseVars,
                   wrapVars, softVars, pptxVars, pdfVars, fsVars, genVars>>

\* open_file(docx_file), the last statement
DocxOpen ==
    /\ docx_pc = "saved"
    /\ \E fails \in BOOLEAN :
        \E r \in {open_file(docx_file, fails)} :
           /\ opened' = Append(opened, r.call)
           /\ docx_pc' = IF r.raises THEN "failed" ELSE "returned"
    /\ UNCHANGED <<docx_file, docx_title, docx_blocks, docx_idx, document, dirs, files, writes,
                   sanVars, parseVars, wrapVars, softVars, pptxVars, pdfVars, genVars>>

DocxNext == DocxStart \/ DocxTurn \/ DocxSave \/ DocxFails \/ DocxOpen

SpecDocx == DocxInit /\ [][DocxNext]_vars

\* file_generator(topic, filetype, save_path), called by process_with_llm
\* through handle_tool_call, once the generated text resp.text has arrived
GenInit ==
    /\ gen_pc = "start" /\ topic \in Topics /\ filetype \in FileTypes
    /\ save_path \in PathHints /\ resp_text \in GenTexts
    /\ gen_result = NoResult /\ llm_result = <<>>
    /\ \E fs \in StartFileSystems : dirs = fs.dirs /\ files = fs.files
    /\ writes = <<>> /\ opened = <<>>
    /\ SanIdle /\ ParseIdle /\ WrapIdle /\ SoftIdle /\ PptxIdle /\ PdfIdle /\ DocxIdle

\* the path of the .txt file, as save_path is after "if not save_path"
TxtPath == ResolvePath(topic, save_path)

\* blocks = parse_txt_structure(raw)
GenBlocks == parse_txt_structure(RawOf(resp_text))

\* where the renderer called stands
RenderPc ==
    IF RendererFor(filetype) = "txt_to_pdf" THEN pdf_pc
    ELSE IF RendererFor(filetype) = "txt_to_docx" THEN docx_pc
    ELSE IF RendererFor(filetype) = "txt_to_pptx" THEN pc
    ELSE "idle"

\* the path is resolved, the default directory made if there is no hint, and
\* raw written to the .txt path.  os.makedirs raises if a file stands where
\* the default directory is to be; open() raises if the path cannot name a
\* file that can be made; f.write(raw) raises if raw cannot be encoded, and
\* leaves the file it has made empty.
GenWrite ==
    /\ gen_pc = "start"
    /\ IF NoHint(save_path) /\ MakedirsError(files, DEFAULT_SAVE_PATH) # NoError
       THEN /\ gen_pc' = "raised"
            /\ gen_result' = Raised(MakedirsError(files, DEFAULT_SAVE_PATH))
            /\ UNCHANGED <<dirs, files, writes>>
       ELSE /\ dirs' = DirsAfterResolve(dirs, save_path)
            /\ IF ~CanCreate(dirs', files, TxtPath)
               THEN /\ gen_pc' = "raised"
                    /\ gen_result' = Raised(OpenError(dirs', files, TxtPath))
                    /\ UNCHANGED <<files, writes>>
               ELSE IF WriteError(RawOf(resp_text)) # NoError
               THEN /\ files' = WriteFile(files, TxtPath, FileOf("text", <<>>))
                    /\ writes' = Append(writes, TxtPath)
                    /\ gen_pc' = "raised"
                    /\ gen_result' = Raised(WriteError(RawOf(resp_text)))
               ELSE /\ files' = WriteFile(files, TxtPath, FileOf("text", RawOf(resp_text)))
                    /\ writes' = Append(writes, TxtPath)
                    /\ gen_pc' = "written"
                    /\ UNCHANGED gen_result
    /\ UNCHANGED <<topic, filetype, save_path, resp_text, llm_result, opened,
                   sanVars, parseVars, wrapVars, softVars, pptxVars, pdfVars, docxVars>>

\* filetype == "pdf": txt_to_pdf(blocks, out, topic) is entered
GenCallPdf ==
    /\ gen_pc = "written" /\ RendererFor(filetype) = "txt_to_pdf"
    /\ gen_pc' = "rendering"
    /\ pdf_pc' = "start" /\ pdf_file' = OutPath(TxtPath, "pdf") /\ pdf_title' = topic
    /\ pdf_blocks' = GenBlocks /\ pdf_idx' = 0
    /\ story' = <<>> /\ bullets' = <<>>
    /\ UNCHANGED <<topic, filetype, save_path, resp_text, gen_result, llm_result,
                   sanVars, parseVars, wrapVars, softVars, pptxVars, docxVars, fsVars>>

\* filetype == "docx": txt_to_docx(blocks, out, topic) is entered
GenCallDocx ==
    /\ gen_pc = "written" /\ RendererFor(filetype) = "txt_to_docx"
    /\ gen_pc' = "rendering"
    /\ docx_pc' = "start" /\ docx_file' = OutPath(TxtPath, "docx") /\ docx_title' = topic
    /\ docx_blocks' = GenBlocks /\ docx_idx' = 0
    /\ document' = <<>>
    /\ UNCHANGED <<topic, filetype, save_path, resp_text, gen_result, llm_result,
                   sanVars, parseVars, wrapVars, softVars, pptxVars, pdfVars, fsVars>>

\* filetype == "pptx": txt_to_pptx(blocks, out, topic) is entered
GenCallPptx ==
    /\ gen_pc = "written" /\ RendererFor(filetype) = "txt_to_pptx"
    /\ gen_pc' = "rendering"
    /\ pc' = "start" /\ pptx_file' = OutPath(TxtPath, "pptx")
    /\ title' = topic /\ blocks' = GenBlocks /\ idx' = 0
    /\ slides' = NoDeck.slides /\ tf' = NoDeck.tf /\ used_lines' = NoDeck.used_lines
    /\ placed' = <<>>
    /\ UNCHANGED <<topic, filetype, save_path, resp_text, gen_result, llm_result,
                   sanVars, parseVars, wrapVars, softVars, pdfVars, docxVars, fsVars>>

\* the renderer is over: file_generator returns out, or what was raised goes on
GenAfterRender ==
    /\ gen_pc = "rendering" /\ RenderPc \in {"returned", "failed"}
    /\ gen_result' = AfterRender(RenderPc, OutPath(TxtPath, filetype))
    /\ gen_pc' = IF gen_result'.raised THEN "raised" ELSE "returned"
    /\ UNCHANGED <<topic, filetype, save_path, resp_text, llm_result,
                   sanVars, parseVars, wrapVars, softVars, pptxVars, pdfVars, docxVars, fsVars>>

\* no renderer for the format: return save_path
GenReturnPlain ==
    /\ gen_pc = "written" /\ RendererFor(filetype) = "none"
    /\ gen_result' = Returned(TxtPath)
    /\ gen_pc' = "returned"
    /\ UNCHANGED <<topic, filetype, save_path, resp_text, llm_result,
                   sanVars, parseVars, wrapVars, softVars, pptxVars, pdfVars, docxVars, fsVars>>

\* process_with_llm returns its text
LlmReturn ==
    /\ gen_pc \in {"returned", "raised"} /\ llm_result = <<>>
    /\ llm_result' = process_with_llm(gen_result)
    /\ UNCHANGED <<gen_pc, topic, filetype, save_path, resp_text, gen_result,
                   sanVars, parseVars, wrapVars, softVars, pptxVars, pdfVars, docxVars, fsVars>>

GenNext ==
    \/ GenWrite \/ GenCallPdf \/ GenCallDocx \/ GenCallPptx
    \/ GenAfterRender \/ GenReturnPlain \/ LlmReturn
    \/ PdfNext \/ DocxNext \/ PptxNext

SpecGen == GenInit /\ [][GenNext]_vars

Init ==
    \/ SanInit \/ ParseInit \/ WrapInit \/ SoftInit \/ PptxInit \/ PdfInit \/ DocxInit
    \/ GenInit

Next == SanNext \/ ParseNext \/ WrapNext \/ SoftNext \/ GenNext

Spec == Init /\ [][Next]_vars

(***************************************************************************)
(* What the claims speak of                                                *)
(***************************************************************************)
BodyTypes == {"h3", "bullet", "p"}

RECURSIVE Concat(_)
Concat(seqs) == IF seqs = <<>> THEN <<>> ELSE Head(seqs) \o Concat(Tail(seqs))

RECURSIVE Sum(_)
Sum(ns) == IF ns = <<>> THEN 0 ELSE Head(ns) + Sum(Tail(ns))

\* a text without the soft hyphens, which are not drawn
Visible(text) == SelectSeq(text, LAMBDA c : c # SHY)

HasMarker(text) == \E i \in 1..Len(text) : IsMarker(text[i])

\* the paragraphs written in a box: in a title or heading box the paragraph
\* that is given the text, in a body box the ones appended after the paragraph
\* clear() leaves, which is given no text
Written(box) == IF box.role = "body" THEN Tail(box.paras) ELSE box.paras

\* the paragraphs written on a slide, box after box
ParasOn(slide) == Concat([b \in 1..Len(slide.boxes) |-> Written(slide.boxes[b])])

\* the paragraphs written in the body boxes of a slide
BodyParasOn(slide) ==
    Concat([b \in 1..Len(slide.boxes) |->
               IF slide.boxes[b].role = "body" THEN Written(slide.boxes[b]) ELSE <<>>])

\* the Heading3/Bullet/Paragraph blocks processed so far, as indices
BodyBlocks == SelectSeq([i \in 1..idx |-> i], LAMBDA i : blocks[i].type \in BodyTypes)

\* those of them placed on slide s
BodyBlocksOn(s) == SelectSeq(BodyBlocks, LAMBDA i : placed[i].slide = s)

\* the sum of the needed-line counts of the blocks placed on slide s
NeededOn(s) == Sum([k \in 1..Len(BodyBlocksOn(s)) |-> placed[BodyBlocksOn(s)[k]].needed])

\* the number of lines all the Heading3/Bullet/Paragraph blocks were wrapped into
TotalBodyLines == Sum([k \in 1..Len(BodyBlocks) |-> placed[BodyBlocks[k]].lines])

\* the sum of their needed-line counts, which is never less
TotalBodyNeeded == Sum([k \in 1..Len(BodyBlocks) |-> placed[BodyBlocks[k]].needed])

ContentSlides == 2..Len(slides)

(***************************************************************************)
(* The claims                                                              *)
(***************************************************************************)
\* C1, as stated: on every content slide the needed-line counts of the
\* Heading3/Bullet/Paragraph blocks placed on it sum to at most MAX_LINES.
C1_SlideWithinCapacity ==
    pc \in {"loop", "saved"} => \A s \in ContentSlides : NeededOn(s) <= MAX_LINES

\* C1, amended: the sum is at most MAX_LINES on every content slide but one that
\* holds a single such block, which alone needs more than MAX_LINES lines.
C1_SlideWithinCapacityOrOneBlock ==
    pc \in {"loop", "saved"} =>
        \A s \in ContentSlides :
            NeededOn(s) <= MAX_LINES \/ Len(BodyBlocksOn(s)) = 1

\* two blocks fill a slide to exactly MAX_LINES and the third overflows to a new one
C1_Witness ==
    /\ pc = "saved" /\ Len(BodyBlocks) = 3 /\ Len(slides) = 3
    /\ Len(BodyBlocksOn(2)) = 2 /\ NeededOn(2) = MAX_LINES
    /\ Len(BodyBlocksOn(3)) = 1

\* C2: when the deck is saved, the words drawn on the content slides, in slide
\* order and then paragraph order, are the words of the blocks in block order,
\* and no empty line is drawn in a body box.
C2_DrawnTextIsBlockText ==
    pc = "saved" =>
        /\ Concat([k \in 1..(Len(slides) - 1) |->
                      LET ps == ParasOn(slides[k + 1])
                      IN  Concat([j \in 1..Len(ps) |-> Split(Visible(ps[j]))])])
             = Concat([i \in 1..Len(blocks) |-> Split(blocks[i].text)])
        /\ \A s \in ContentSlides :
               \A j \in 1..Len(BodyParasOn(slides[s])) : BodyParasOn(slides[s])[j] # <<>>

\* C3: a turn on a Heading1 block adds exactly two slides, the first carrying
\* the heading text and the second empty and active, and leaves used_lines at
\* 0; and a Heading3/Bullet/Paragraph block processed right after a Heading1
\* is placed on a slide that held no text and no earlier block.
C3_HeadingOneLeavesFreshSlide ==
    [][/\ (idx' = idx + 1 /\ blocks[idx'].type = "h1") =>
            /\ Len(slides') = Len(slides) + 2
            /\ SubSeq(slides', 1, Len(slides)) = slides
            /\ Len(ParasOn(slides'[Len(slides) + 1])) = 1
            /\ Visible(ParasOn(slides'[Len(slides) + 1])[1]) = blocks[idx'].text
            /\ ParasOn(slides'[Len(slides) + 2]) = <<>>
            /\ tf'.slide = Len(slides) + 2
            /\ used_lines' = 0
       /\ (/\ idx >= 1 /\ idx' = idx + 1
           /\ blocks[idx].type = "h1" /\ blocks[idx'].type \in BodyTypes) =>
            /\ placed'[idx'].slide <= Len(slides) =>
                   ParasOn(slides[placed'[idx'].slide]) = <<>>
            /\ \A i \in 1..idx : placed[i].slide # placed'[idx'].slide
      ]_vars

\* body text, a Heading1, body text again
C3_Witness ==
    /\ idx = 3 /\ blocks[1].type \in BodyTypes /\ placed[1].lines >= 1
    /\ blocks[2].type = "h1"
    /\ blocks[3].type \in BodyTypes /\ placed[3].lines >= 1
    /\ BodyParasOn(slides[placed[3].slide]) # <<>>

\* a line fits the budget, or is one word longer than the budget
C4_LineOk(line, budget) == Len(line) <= budget \/ Split(line) = <<line>>

\* C4: every line _lines_for_paragraph returns and every line the loop of
\* txt_to_pptx computes is at most the budget long, or is one single word.
C4_LinesWithinBudget ==
    /\ (wrap_pc \in {"helper", "both"} /\ helper_lines # IndexError) =>
           \A k \in 1..Len(helper_lines) : C4_LineOk(helper_lines[k], wrap_budget)
    /\ wrap_pc = "both" =>
           \A k \in 1..Len(inline_lines) : C4_LineOk(inline_lines[k], wrap_budget)

\* at the budget of txt_to_pptx: a line of two words and a line of one oversize word
C4_Witness ==
    /\ wrap_pc = "both" /\ wrap_budget = CHAR_PER_LINE
    /\ \E k \in 1..Len(inline_lines) : Len(Split(inline_lines[k])) = 2
    /\ \E k \in 1..Len(inline_lines) : Len(inline_lines[k]) > wrap_budget
    /\ \E k \in 1..Len(helper_lines) : Len(Split(helper_lines[k])) = 2
    /\ \E k \in 1..Len(helper_lines) : Len(helper_lines[k]) > wrap_budget

\* C5: when the deck is saved and the Heading3/Bullet/Paragraph blocks were
\* wrapped into more than MAX_LINES lines in total, or their needed-line counts
\* sum to more than MAX_LINES, the deck has more than one slide besides the
\* cover.
C5_OverflowMakesSlides ==
    (pc = "saved" /\ (TotalBodyLines > MAX_LINES \/ TotalBodyNeeded > MAX_LINES))
        => Len(slides) - 1 > 1

\* blocks that each fit a slide and together do not, and no heading
C5_Witness ==
    /\ pc = "saved" /\ TotalBodyLines > MAX_LINES /\ Len(slides) = 3
    /\ Len(BodyBlocks) = Len(blocks)
    /\ \A i \in 1..Len(blocks) : placed[i].needed <= MAX_LINES

\* C6: every block parse_txt_structure returns has a non-empty text.
C6_BlockTextNonEmpty ==
    parse_pc = "done" => \A i \in 1..Len(out) : out[i].text # <<>>

\* C7: what _sanitize_inline_markup returns holds no asterisk, underscore or
\* backtick.
C7_NoMarkerLeft ==
    san_pc \in {"once", "twice"} => ~HasMarker(san_once)

\* a text with all three markers, of which something is left
C7_Witness ==
    /\ san_pc = "once" /\ san_once # <<>> /\ san_in # None
    /\ \A m \in {"*", "_", Tick} : \E i \in 1..Len(san_in) : san_in[i] = m

\* C8: _sanitize_inline_markup applied to its own result returns that result.
C8_SanitizeIdempotent ==
    san_pc = "twice" => san_twice = san_once

\* a text the first call changed, by more than stripping its ends
C8_Witness ==
    /\ san_pc = "twice" /\ san_in # None /\ HasMarker(san_in)
    /\ san_once # <<>> /\ san_once # Strip(san_in)

\* the lines of a text that are not empty once right-stripped, in order
C9_Lines(text) == SelectSeq(SplitLines(text), LAMBDA l : RStrip(l) # <<>>)

\* a line without the whitespace around it and without its marker prefix
C9_Content(line) ==
    LET t == Strip(line)
        n == CHOOSE k \in {4, 3, 2, 0} :
                 \/ k = 4 /\ StartsWith(t, <<"#", "#", "#", " ">>)
                 \/ k = 3 /\ StartsWith(t, <<"#", "#", " ">>)
                 \/ k = 2 /\ StartsWith(t, <<"#", " ">>)
                 \/ k = 2 /\ StartsWith(t, <<"-", " ">>)
                 \/ k = 0 /\ \A m \in {<<"#", "#", "#", " ">>, <<"#", "#", " ">>,
                                       <<"#", " ">>, <<"-", " ">>} : ~StartsWith(t, m)
    IN  DropFirst(t, n)

\* C9: parse_txt_structure returns one block for each line that is not empty
\* once right-stripped, in the order of the lines, its text the sanitized
\* content of the line without the marker prefix; None gives no block.
C9_OneBlockPerLine ==
    parse_pc = "done" =>
        IF raw = None THEN out = <<>>
        ELSE /\ Len(out) = Len(C9_Lines(raw))
             /\ \A i \in 1..Len(out) :
                    out[i].text = _sanitize_inline_markup(C9_Content(C9_Lines(raw)[i]))

\* two lines, the first a bullet, that give two blocks of different texts
C9_Witness ==
    /\ parse_pc = "done" /\ raw # None /\ Len(out) = 2
    /\ out[1].type = "bullet" /\ out[1].text # <<>>
    /\ out[2].text # <<>> /\ out[2].text # out[1].text

\* the texts of the run of Bullet blocks at the head of bs
RECURSIVE C11_Run(_)
C11_Run(bs) ==
    IF bs # <<>> /\ Head(bs).type = "bullet"
    THEN <<Head(bs).text>> \o C11_Run(Tail(bs))
    ELSE <<>>

\* the number of Bullet blocks at the end of bs
RECURSIVE C11_Trailing(_)
C11_Trailing(bs) ==
    IF bs # <<>> /\ bs[Len(bs)].type = "bullet"
    THEN 1 + C11_Trailing(SubSeq(bs, 1, Len(bs) - 1))
    ELSE 0

\* what the blocks bs call for: one list for each maximal run of bullets, one
\* paragraph for each other block, in the order of the blocks
RECURSIVE C11_Expected(_)
C11_Expected(bs) ==
    IF bs = <<>> THEN <<>>
    ELSE IF Head(bs).type = "bullet"
    THEN <<[list |-> TRUE, texts |-> C11_Run(bs)]>>
             \o C11_Expected(SubSeq(bs, Len(C11_Run(bs)) + 1, Len(bs)))
    ELSE <<[list |-> FALSE, texts |-> <<Head(bs).text>>]>> \o C11_Expected(Tail(bs))

\* the lists and paragraphs of the story after the title material, in order
C11_Emitted ==
    LET els == SelectSeq(SubSeq(story, 5, Len(story)),
                         LAMBDA e : e.el \in {"Paragraph", "ListFlowable"})
    IN  [k \in 1..Len(els) |->
            IF els[k].el = "ListFlowable"
            THEN [list |-> TRUE, texts |-> els[k].items]
            ELSE [list |-> FALSE, texts |-> <<els[k].text>>]]

\* C11: in the loop of txt_to_pdf the story holds one list for each maximal run
\* of bullets that a non-bullet block has ended, before the paragraph of that
\* block, and the buffer holds exactly the bullets of the run still open; when
\* the document is built the story holds one list for every maximal run, the
\* last at its end, the buffer is empty, and the file holds that story.
C11_BulletRunsGrouped ==
    /\ pdf_pc = "loop" =>
           LET done == SubSeq(pdf_blocks, 1, pdf_idx)
               k == C11_Trailing(done)
           IN  /\ C11_Emitted = C11_Expected(SubSeq(done, 1, pdf_idx - k))
               /\ bullets = [j \in 1..k |-> done[pdf_idx - k + j].text]
    /\ pdf_pc \in {"built", "returned"} =>
           /\ C11_Emitted = C11_Expected(pdf_blocks)
           /\ bullets = <<>>
           /\ files[FileKey(pdf_file)] = FileOf("pdf", story)

\* a run of two bullets ended by another block, and a run that ends the blocks
C11_Witness ==
    /\ pdf_pc = "built" /\ Len(pdf_blocks) = 4
    /\ Len(C11_Emitted) = 3
    /\ C11_Emitted[1].list /\ Len(C11_Emitted[1].texts) = 2
    /\ C11_Emitted[1].texts[1] # C11_Emitted[1].texts[2]
    /\ ~C11_Emitted[2].list
    /\ C11_Emitted[3].list /\ story[Len(story) - 1].el = "ListFlowable"

\* str.endswith
EndsWith(text, suffix) ==
    Len(text) >= Len(suffix)
    /\ SubSeq(text, Len(text) - Len(suffix) + 1, Len(text)) = suffix

\* the extension of a format
ExtensionOf(ft) ==
    <<".">> \o (IF ft = "pdf" THEN <<"p", "d", "f">>
                ELSE IF ft = "docx" THEN <<"d", "o", "c", "x">>
                ELSE IF ft = "pptx" THEN <<"p", "p", "t", "x">>
                ELSE <<"t", "x", "t">>)

\* the files the call has written, among the files there are
C12_FilesWritten ==
    {f \in DOMAIN files : \E k \in 1..Len(writes) : FileKey(writes[k]) = f}

\* C12: when file_generator has returned, the call has written to one path
\* only, the returned one, and the file at that path is the only file it has
\* written.
C12_OneFileWritten ==
    gen_pc = "returned" =>
        /\ {writes[k] : k \in 1..Len(writes)} = {gen_result.value}
        /\ C12_FilesWritten = {FileKey(gen_result.value)}

\* C13: when file_generator has returned for pdf, docx or pptx, the returned
\* path ends with the extension of the format, and without a hint it is the
\* default directory joined with the topic, spaces replaced by "_", followed
\* by that extension.
C13_ReturnedPathHasExtension ==
    (gen_pc = "returned" /\ filetype \in {"pdf", "docx", "pptx"}) =>
        /\ EndsWith(gen_result.value, ExtensionOf(filetype))
        /\ NoHint(save_path) =>
               gen_result.value =
                   DEFAULT_SAVE_PATH \o <<"/">>
                       \o [i \in 1..Len(topic) |-> IF topic[i] = " " THEN "_" ELSE topic[i]]
                       \o ExtensionOf(filetype)

\* C14: the call never fails for a missing directory, and once file_generator
\* is past its first write the directory of the target path exists, with or
\* without a hint.
C14_ParentDirectoryEnsured ==
    gen_pc \notin {"idle", "start"} =>
        /\ gen_result # Raised("FileNotFoundError")
        /\ gen_pc # "raised" => DirectoryOf(dirs, files, TxtPath).error = NoError

\* C15: once a renderer has failed, it stays failed and is not entered again,
\* nothing more is written, open_file is not invoked, file_generator raises
\* what the renderer raised, and process_with_llm returns the one failure
\* text.
C15_RenderFailurePropagates ==
    /\ [](RenderPc = "failed" =>
            /\ opened = <<>>
            /\ gen_pc \in {"rendering", "raised"}
            /\ gen_pc = "raised" => gen_result = Raised("RenderFailure")
            /\ llm_result # <<>> =>
                   llm_result = <<"An error occurred", <<"RenderFailure">>>>)
    /\ [][RenderPc = "failed" =>
            /\ RenderPc' = "failed"
            /\ files' = files /\ writes' = writes /\ opened' = opened
            /\ story' = story /\ document' = document /\ slides' = slides]_vars

\* txt_to_pdf failed in the middle of a turn, the list of the bullets in the
\* story and the Spacer after it not made, after the .txt file was written,
\* and the caller has its text
C15_Witness ==
    /\ RenderPc = "failed" /\ gen_pc = "raised" /\ llm_result # <<>>
    /\ Len(writes) = 1 /\ GenBlocks # <<>>
    /\ pdf_pc = "failed" /\ pdf_idx < Len(pdf_blocks)
    /\ story # <<>> /\ story[Len(story)].el = "ListFlowable"

\* C16: when the platform call of open_file has failed, the renderer has
\* returned all the same, file_generator does not raise and returns the output
\* path, and the invocation changed no file.
C16_OpenFailureSwallowed ==
    /\ []((\E k \in 1..Len(opened) : opened[k].failed) =>
            /\ RenderPc = "returned"
            /\ gen_pc \in {"rendering", "returned"}
            /\ gen_pc = "returned" =>
                   /\ gen_result = Returned(opened[1].path)
                   /\ llm_result # <<>> => llm_result = <<"file_generator", opened[1].path>>
            /\ FileKey(opened[1].path) \in DOMAIN files
            /\ files[FileKey(opened[1].path)].format = filetype)
    /\ [][opened' # opened =>
            /\ files' = files /\ writes' = writes
            /\ RenderPc' = "returned"]_vars

\* the platform call failed, and the path came back to the caller
C16_Witness ==
    /\ Len(opened) = 1 /\ opened[1].failed
    /\ gen_pc = "returned" /\ llm_result = <<"file_generator", opened[1].path>>
    /\ files[FileKey(opened[1].path)].body # <<>>

\* C17: for format txt no renderer is ever entered and open_file is never
\* invoked; when file_generator has returned, the file at the resolved path
\* holds the generated text, stripped of the whitespace around it as raw is
\* and with its markup untouched, it is the only file written, and its path
\* is what is returned.
C17_PlainTextBypassesRendering ==
    filetype = "txt" =>
        /\ pdf_pc = "idle" /\ docx_pc = "idle" /\ pc = "idle"
        /\ opened = <<>>
        /\ gen_pc = "returned" =>
               /\ files[FileKey(TxtPath)] = FileOf("text", Strip(resp_text))
               /\ writes = <<TxtPath>>
               /\ gen_result = Returned(TxtPath)

\* a text with emphasis markup, which the blocks parsed from it do not hold
C17_Witness ==
    /\ filetype = "txt" /\ gen_pc = "returned" /\ llm_result # <<>>
    /\ HasMarker(files[FileKey(TxtPath)].body)
    /\ Len(GenBlocks) = 1 /\ GenBlocks[1].text # files[FileKey(TxtPath)].body

\* C18: for an empty block sequence, the finished story of txt_to_pdf is the
\* title, a spacer, the accent bar and a spacer; the finished document of
\* txt_to_docx is the title and one blank paragraph; the finished deck of
\* txt_to_pptx is the cover and one content slide without text, with
\* used_lines = 0; and the file written holds just that.
C18_EmptyBlocksTitleOnly ==
    /\ (pdf_pc \in {"built", "returned"} /\ pdf_blocks = <<>>) =>
           /\ [k \in 1..Len(story) |-> story[k].el]
                  = <<"Paragraph", "Spacer", "Paragraph", "Spacer">>
           /\ story[1].text = topic /\ story[1].style = "TitleX"
           /\ story[3].style = "Bar"
           /\ files[FileKey(pdf_file)] = FileOf("pdf", story)
    /\ (docx_pc \in {"saved", "returned"} /\ docx_blocks = <<>>) =>
           /\ [k \in 1..Len(document) |-> document[k].el] = <<"Paragraph", "Paragraph">>
           /\ document[1].text = topic /\ document[1].style = "TitleX"
           /\ document[2].text = <<>>
           /\ files[FileKey(docx_file)] = FileOf("docx", document)
    /\ (pc \in {"saved", "returned"} /\ blocks = <<>>) =>
           /\ Len(slides) = 2
           /\ slides[1].kind = "cover" /\ ParasOn(slides[1]) = <<topic>>
           /\ slides[2].kind = "content" /\ ParasOn(slides[2]) = <<>>
           /\ used_lines = 0
           /\ files[FileKey(pptx_file)] = FileOf("pptx", slides)

\* a blank generated text, rendered as a story
C18_Witness ==
    /\ pdf_pc = "returned" /\ pdf_blocks = <<>> /\ resp_text # <<>>
    /\ gen_pc = "returned" /\ Len(story) = 4

\* the type of a line by the most specific prefix it starts with after its
\* leading whitespace, the longest marker tested first
C19_TypeOf(line) ==
    LET t == LStrip(line)
    IN  IF StartsWith(t, <<"#", "#", "#", " ">>) THEN "h3"
        ELSE IF StartsWith(t, <<"#", "#", " ">>) THEN "h2"
        ELSE IF StartsWith(t, <<"#", " ">>) THEN "h1"
        ELSE IF StartsWith(t, <<"-", " ">>) THEN "bullet"
        ELSE "p"

\* C19 as stated: the block of each non-blank line has the type of the most
\* specific prefix the line starts with after its leading whitespace: Heading3
\* for "### ", Heading2 for "## ", Heading1 for "# ", Bullet for "- ",
\* Paragraph otherwise.
C19_MostSpecificPrefixOfLine ==
    (parse_pc = "done" /\ raw # None) =>
        /\ Len(out) = Len(C9_Lines(raw))
        /\ \A i \in 1..Len(out) : out[i].type = C19_TypeOf(C9_Lines(raw)[i])

\* C19: the block of each non-blank line has the type of the most specific
\* prefix that the line, with its trailing whitespace removed, starts with
\* after its leading whitespace: Heading3 for "### ", Heading2 for "## ",
\* Heading1 for "# ", Bullet for "- ", Paragraph otherwise; a marker followed
\* by whitespace only is a Paragraph.
C19_MostSpecificPrefix ==
    (parse_pc = "done" /\ raw # None) =>
        /\ Len(out) = Len(C9_Lines(raw))
        /\ \A i \in 1..Len(out) : out[i].type = C19_TypeOf(RStrip(C9_Lines(raw)[i]))

\* a Heading2 line that ends with whitespace
C19_Witness ==
    /\ parse_pc = "done" /\ raw # None /\ Len(out) = 1
    /\ out[1].type = "h2" /\ out[1].text # <<>>
    /\ RStrip(C9_Lines(raw)[1]) # C9_Lines(raw)[1]

\* the lines each block of the pool is wrapped into
C20_LinesOf == [b \in BlockPool |-> InlineLines(soften(b.text), CHAR_PER_LINE)]

\* the lines the loop wraps the next block into
C20_NextLines ==
    IF blocks[idx + 1] \in BlockPool THEN C20_LinesOf[blocks[idx + 1]] ELSE NextLines

\* the paragraphs of the body boxes of slide s of the deck d, none if d has no such slide
C20_BodyParas(d, s) == IF s <= Len(d) THEN BodyParasOn(d[s]) ELSE <<>>

\* C20: a turn of the main loop on a Heading3/Bullet/Paragraph block adds at
\* most one slide, changes no slide but the one the block is placed on, and
\* appends to that slide as many paragraphs as the block was wrapped into,
\* holding the words of the block in order; a turn such a block ends with a
\* raise adds at most one slide too, and has appended lines of the block, the
\* first ones, to one slide alone, the last of them still empty or not; every
\* turn takes one block, no other step of the loop that does not fail changes
\* the deck, and when the deck is saved every block has been taken once.
C20_BlockOnOneSlide ==
    /\ [](pc \in {"saved", "returned"} => idx = Len(blocks) /\ Len(placed) = Len(blocks))
    /\ [][/\ idx' \in {idx, idx + 1}
          /\ (idx' = idx /\ pc = "loop" /\ pc' # "failed") => slides' = slides
          /\ (idx' = idx + 1 /\ blocks[idx'].type \in BodyTypes) =>
                \A s \in {placed'[idx'].slide} :
                \A before \in {C20_BodyParas(slides, s)} :
                \A after \in {C20_BodyParas(slides', s)} :
                \A added \in {SubSeq(after, Len(before) + 1, Len(after))} :
                    /\ Len(slides') \in {Len(slides), Len(slides) + 1}
                    /\ \A k \in 1..Len(slides) : k # s => slides'[k] = slides[k]
                    /\ s <= Len(slides') /\ s >= Len(slides)
                    /\ SubSeq(after, 1, Len(before)) = before
                    /\ Len(added) = placed'[idx'].lines
                    /\ Concat([j \in 1..Len(added) |-> Split(Visible(added[j]))])
                           = Split(blocks[idx'].text)
          /\ (/\ pc = "loop" /\ pc' = "failed" /\ idx < Len(blocks)
              /\ blocks[idx + 1].type \in BodyTypes) =>
                \A s \in {Len(slides')} :
                \A before \in {C20_BodyParas(slides, s)} :
                \A after \in {C20_BodyParas(slides', s)} :
                \A added \in {SubSeq(after, Len(before) + 1, Len(after))} :
                \A lines \in {C20_NextLines} :
                    /\ s \in {Len(slides), Len(slides) + 1}
                    /\ \A k \in 1..Len(slides) : k # s => slides'[k] = slides[k]
                    /\ SubSeq(after, 1, Len(before)) = before
                    /\ \E j \in 0..Len(lines) :
                           added \in {SubSeq(lines, 1, j), Append(SubSeq(lines, 1, j), <<>>)}
         ]_vars

\* a block of more than MAX_LINES lines, all on the slide made for it
C20_Witness ==
    /\ pc = "saved" /\ Len(blocks) = 2 /\ blocks[1].type \in BodyTypes
    /\ placed[1].slide = 2 /\ placed[1].lines >= 1
    /\ placed[2].slide = 3 /\ placed[2].lines > MAX_LINES
    /\ Len(BodyParasOn(slides[3])) = placed[2].lines

\* the paragraphs appended to the active text region since it was created
ActiveParas == Written(slides[tf.slide].boxes[tf.box])

\* C21: at every point of the main loop used_lines is the number of line
\* paragraphs appended to the active text region since it was created, for
\* every block text, an empty one included.
C21_CounterIsLinesPlaced ==
    pc \in {"loop", "saved"} => used_lines = Len(ActiveParas)

\* what a turn on a Heading2 block does, whatever comes next: one slide more,
\* the slides before it untouched, the heading text its only paragraph, in the
\* heading box, a body box of the new slide just cleared active, used_lines = 0
C22_HeadingTurn ==
    (idx' = idx + 1 /\ blocks[idx'].type = "h2") =>
        \A d \in {slides'} : \A h \in {Len(slides) + 1} :
            /\ Len(d) = h
            /\ SubSeq(d, 1, Len(slides)) = slides
            /\ Len(ParasOn(d[h])) = 1
            /\ \E b \in 1..Len(d[h].boxes) :
                   /\ d[h].boxes[b].role = "h2"
                   /\ Len(d[h].boxes[b].paras) = 1
                   /\ Visible(d[h].boxes[b].paras[1]) = blocks[idx'].text
            /\ tf'.slide = h
            /\ d[h].boxes[tf'.box] = Box("body", ClearedFrame)
            /\ used_lines' = 0

\* C22, as stated: a Heading2 turn adds exactly one slide, draws the heading
\* text once on it, makes a new empty text region of that slide the active one
\* and sets used_lines to 0; and the lines of a Heading3/Bullet/Paragraph block
\* processed right after it are placed on the slide of the heading.
C22_HeadingTwoTakesBody ==
    [][/\ C22_HeadingTurn
       /\ (/\ idx >= 1 /\ idx' = idx + 1
           /\ blocks[idx].type = "h2" /\ blocks[idx'].type \in BodyTypes) =>
            /\ placed'[idx'].slide = placed[idx].slide
            /\ Len(BodyParasOn(slides'[placed[idx].slide])) = placed'[idx'].lines
      ]_vars

\* C22, amended: the same, but a block that alone needs more than MAX_LINES
\* lines is placed on a new slide after the one of the heading; in no case are
\* the lines placed on a slide that existed before the heading.
C22_HeadingTwoTakesBodyThatFits ==
    [][/\ C22_HeadingTurn
       /\ (/\ idx >= 1 /\ idx' = idx + 1
           /\ blocks[idx].type = "h2" /\ blocks[idx'].type \in BodyTypes) =>
            \A on \in {placed'[idx'].slide} : \A h \in {placed[idx].slide} :
                /\ h = Len(slides)
                /\ IF placed'[idx'].needed <= MAX_LINES
                   THEN on = h /\ Written(slides'[h].boxes[tf.box]) = ActiveParas'
                   ELSE on = h + 1 /\ slides'[h] = slides[h]
                /\ Len(BodyParasOn(slides'[on])) = placed'[idx'].lines
                /\ SubSeq(slides', 1, h - 1) = SubSeq(slides, 1, h - 1)
      ]_vars

\* a Heading2 and then a block of several lines, drawn under the heading
C22_Witness ==
    /\ idx = 2 /\ blocks[1].type = "h2" /\ blocks[2].type \in BodyTypes
    /\ placed[2].slide = placed[1].slide /\ placed[2].lines > 1
    /\ Len(slides) = 3 /\ tf.slide = 3 /\ used_lines = placed[2].lines
    /\ Len(ActiveParas) = placed[2].lines

\* the places of the page breaks in a story or a document
PageBreaksOf(els) == SelectSeq([k \in 1..Len(els) |-> k], LAMBDA k : els[k] = PageBreak)

\* the Heading1 blocks among the first n of bs, as indices
HeadingOnes(bs, n) == SelectSeq([i \in 1..n |-> i], LAMBDA i : bs[i].type = "h1")

\* C23: in the story of txt_to_pdf there are as many page breaks as Heading1
\* blocks were processed, the k-th page break is directly followed by the
\* heading paragraph of the k-th Heading1; a Heading1 turn appends the list of
\* the bullets buffered before it (if any), then the page break, then the
\* heading; and a turn on any other block appends no page break.
C23_PageBreakPerHeadingOne ==
    /\ [](pdf_pc \in {"loop", "built", "returned"} =>
            \A brk \in {PageBreaksOf(story)} : \A h1s \in {HeadingOnes(pdf_blocks, pdf_idx)} :
                /\ Len(brk) = Len(h1s)
                /\ \A k \in 1..Len(brk) :
                       /\ brk[k] < Len(story)
                       /\ story[brk[k] + 1] = Paragraph(pdf_blocks[h1s[k]].text, "H1X"))
    /\ [][pdf_idx' = pdf_idx + 1 =>
            \A added \in {SubSeq(story', Len(story) + 1, Len(story'))} :
                /\ SubSeq(story', 1, Len(story)) = story
                /\ IF pdf_blocks[pdf_idx'].type = "h1"
                   THEN added = (IF bullets # <<>>
                                 THEN <<ListFlowable(bullets), Spacer(6)>> ELSE <<>>)
                                \o <<PageBreak, Paragraph(pdf_blocks[pdf_idx'].text, "H1X")>>
                   ELSE PageBreaksOf(added) = <<>>
      ]_vars

\* bullets, a Heading1, a paragraph, a Heading1: two page breaks, the first
\* right after the list of the bullets and its spacer
C23_Witness ==
    /\ pdf_pc = "built" /\ pdf_idx = 4
    /\ pdf_blocks[1].type = "bullet" /\ pdf_blocks[2].type = "h1"
    /\ pdf_blocks[3].type = "p" /\ pdf_blocks[4].type = "h1"
    /\ Len(PageBreaksOf(story)) = 2
    /\ story[PageBreaksOf(story)[1] - 2].el = "ListFlowable"

\* the paragraph style txt_to_docx gives a block of the type
C24_StyleOf(type) ==
    CASE type = "h1" -> "H1X"
      [] type = "h2" -> "H2X"
      [] type = "h3" -> "H3X"
      [] type = "bullet" -> "List Bullet"
      [] OTHER -> "BodyX"

\* C24: the document of txt_to_docx holds paragraphs and page breaks only; after
\* the title and the blank paragraph its paragraphs are one per block processed,
\* in block order, each with the text of its block and the style of its type (a
\* bullet is a list paragraph of its own); and there is one page break per
\* Heading1 block, each directly before the paragraph of its Heading1.
C24_OneParagraphPerBlock ==
    docx_pc \in {"loop", "saved", "returned"} =>
        \A paras \in {SelectSeq(document, LAMBDA e : e.el = "Paragraph")} :
        \A brk \in {PageBreaksOf(document)} :
        \A h1s \in {HeadingOnes(docx_blocks, docx_idx)} :
            /\ Len(document) = Len(paras) + Len(brk)
            /\ Len(paras) = Len(StartDocument(<<>>)) + docx_idx
            /\ \A i \in 1..docx_idx :
                   paras[Len(StartDocument(<<>>)) + i]
                       = Paragraph(docx_blocks[i].text, C24_StyleOf(docx_blocks[i].type))
            /\ Len(brk) = Len(h1s)
            /\ \A k \in 1..Len(brk) :
                   /\ brk[k] < Len(document)
                   /\ document[brk[k] + 1] = Paragraph(docx_blocks[h1s[k]].text, "H1X")

\* two bullets in a row, a Heading1 and a Heading2: two list paragraphs next to
\* each other and one page break
C24_Witness ==
    /\ docx_pc = "saved" /\ docx_idx = 4
    /\ docx_blocks[1].type = "bullet" /\ docx_blocks[2].type = "bullet"
    /\ docx_blocks[1] # docx_blocks[2]
    /\ docx_blocks[3].type = "h1" /\ docx_blocks[4].type = "h2"
    /\ document[3].style = "List Bullet" /\ document[4].style = "List Bullet"
    /\ PageBreaksOf(document) = <<5>> /\ Len(document) = 7

\* the cover as the statements before the main loop build it: without a text
\* box, with the title box made, with the title written
C25_CoverInTheMaking ==
    {[kind |-> "cover", boxes |-> <<>>],
     [kind |-> "cover", boxes |-> <<Box("title", ClearedFrame)>>],
     CoverSlide(title)}

\* C25: the first slide of the deck is the cover, which carries the title and
\* nothing else, at every point of the rendering; the active region and the
\* slide of every block are later slides; used_lines is 0 when the first block
\* is processed, and a first Heading3/Bullet/Paragraph block that needs at most
\* MAX_LINES lines is placed on the first content slide.  After a raise the
\* same holds if the main loop was reached; if it was not, the first slide, if
\* there is one, is the cover as far as it was built, no block is taken, and
\* no other slide holds text.
C25_CoverHoldsTitleOnly ==
    /\ [](pc \in {"loop", "saved", "returned"} =>
            /\ slides[1] = CoverSlide(title)
            /\ ParasOn(slides[1]) = <<title>>
            /\ tf.slide > 1
            /\ \A i \in 1..idx : placed[i].slide > 1
            /\ idx = 0 => used_lines = 0)
    /\ [](pc = "failed" =>
            /\ Len(slides) >= 1 => slides[1] \in C25_CoverInTheMaking
            /\ tf.slide > 1 =>
                   slides[1] = CoverSlide(title) /\ ParasOn(slides[1]) = <<title>>
            /\ tf.slide <= 1 =>
                   /\ idx = 0 /\ Len(slides) <= 2
                   /\ \A s \in ContentSlides : ParasOn(slides[s]) = <<>>
            /\ \A i \in 1..idx : placed[i].slide > 1
            /\ idx = 0 => used_lines = 0)
    /\ [][(/\ idx = 0 /\ idx' = 1 /\ blocks[1].type \in BodyTypes
           /\ placed'[1].needed <= MAX_LINES) =>
              /\ placed'[1].slide = 2 /\ Len(slides') = 2
              /\ used_lines' = placed'[1].needed
      ]_vars

\* a deck saved whose first block is body text of several lines, on slide 2
C25_Witness ==
    /\ pc = "saved" /\ idx >= 1 /\ blocks[1].type \in BodyTypes
    /\ placed[1].lines > 1 /\ placed[1].slide = 2
    /\ Len(BodyParasOn(slides[2])) >= placed[1].lines
    /\ slides[1] = CoverSlide(title)

\* a renderer at rpc, writing content as a file of the format to rfile, the loop
\* over when over holds: nothing is opened while the loop runs or once it has
\* failed; once the file is written the loop is over and the file holds the
\* content; once the renderer has returned the file was opened once, and the
\* content is still what the file holds
C26_OpenedLast(rpc, rfile, over, format, content) ==
    /\ rpc \in {"start", "loop", "failed"} => opened = <<>>
    /\ rpc \in {"built", "saved"} =>
           /\ opened = <<>> /\ over
           /\ FileKey(rfile) \in DOMAIN files
           /\ files[FileKey(rfile)] = FileOf(format, content)
           /\ writes[Len(writes)] = rfile
    /\ rpc = "returned" =>
           /\ Len(opened) = 1 /\ opened[1].path = rfile /\ over
           /\ FileKey(rfile) \in DOMAIN files
           /\ files[FileKey(rfile)] = FileOf(format, content)
           /\ writes[Len(writes)] = rfile

\* C26: in txt_to_pdf, txt_to_docx and txt_to_pptx open_file is called once per
\* render that succeeds and never in one that fails, after the last block was
\* processed and the document built or saved; the call of open_file changes no
\* document and no file, and nothing changes a document after it.
C26_OpenOnceAfterSave ==
    /\ [](/\ C26_OpenedLast(pdf_pc, pdf_file, pdf_idx = Len(pdf_blocks), "pdf", story)
          /\ C26_OpenedLast(docx_pc, docx_file, docx_idx = Len(docx_blocks), "docx", document)
          /\ C26_OpenedLast(pc, pptx_file, idx = Len(blocks), "pptx", slides))
    /\ [][/\ opened' # opened =>
               /\ Len(opened') = Len(opened) + 1
               /\ "returned" \in {pdf_pc', docx_pc', pc'}
               /\ UNCHANGED <<story, bullets, document, slides, files, writes>>
          /\ "returned" \in {pdf_pc, docx_pc, pc} =>
               UNCHANGED <<story, bullets, document, slides, files, writes, opened>>
      ]_vars

\* file_generator has returned the path of a pdf of several blocks, which was
\* written after the text file and then opened, the platform call failing or not
C26_Witness ==
    /\ gen_pc = "returned" /\ pdf_pc = "returned" /\ Len(pdf_blocks) > 1
    /\ Len(writes) = 2 /\ writes[2] = pdf_file /\ gen_result.value = pdf_file
    /\ Len(opened) = 1 /\ opened[1].path = pdf_file
    /\ files[FileKey(pdf_file)] = FileOf("pdf", story)

\* C27: the active text region is on the last slide of the deck, and a step
\* changes no slide but the last one and the ones it creates: when it creates
\* slides, the slide that was the last one before is left as it was, and of the
\* slides created only the last can hold body lines.  After a raise the active
\* region is on the last slide too, or, when new_slide or the cover was left
\* half-way, on the slide before a last slide that holds no text.
C27_OnlyNewestSlideWritten ==
    /\ [](pc \in {"loop", "saved", "returned"} => tf.slide = Len(slides))
    /\ [](pc = "failed" =>
            \/ tf.slide = Len(slides)
            \/ /\ tf.slide = Len(slides) - 1
               /\ \A b \in 1..Len(slides[Len(slides)].boxes) :
                      slides[Len(slides)].boxes[b].paras = ClearedFrame)
    /\ [][\A n \in {Len(slides)} : \A d \in {slides'} :
              /\ Len(d) >= n
              /\ SubSeq(d, 1, n - 1) = SubSeq(slides, 1, n - 1)
              /\ (Len(d) > n /\ n >= 1) => d[n] = slides[n]
              /\ \A s \in (n + 1)..(Len(d) - 1) : BodyParasOn(d[s]) = <<>>
      ]_vars

\* three content slides, each with body lines, written one after the other
C27_Witness ==
    /\ pc = "saved" /\ Len(slides) = 4 /\ idx = 3
    /\ \A s \in ContentSlides : Len(BodyBlocksOn(s)) = 1 /\ BodyParasOn(slides[s]) # <<>>

\* the k characters of text that end at position i are word characters
C28_WordRunEndsAt(text, i, k) ==
    i >= k /\ \A j \in (i - k + 1)..i : IsWordChar(text[j])

\* C28: for a text that holds no soft hyphen, soften(text) without its soft
\* hyphens is the text; every soft hyphen of the result comes right after
\* SOFT_RUN word characters; wherever the result has SOFT_RUN word characters
\* in a row a soft hyphen follows them, so it has no longer run of word
\* characters.
C28_SoftenBreaksLongRuns ==
    (soft_pc = "done" /\ \A i \in 1..Len(soft_text) : soft_text[i] # SHY) =>
        /\ Visible(softened) = soft_text
        /\ \A i \in 1..Len(softened) :
               /\ softened[i] = SHY => C28_WordRunEndsAt(softened, i - 1, SOFT_RUN)
               /\ C28_WordRunEndsAt(softened, i, SOFT_RUN) =>
                      i < Len(softened) /\ softened[i + 1] = SHY
               /\ ~C28_WordRunEndsAt(softened, i, SOFT_RUN + 1)

\* a text with a run of exactly SOFT_RUN word characters and a run of more than
\* twice as many: three soft hyphens
C28_Witness ==
    /\ soft_pc = "done"
    /\ soft_text = SoftJoin(<<SOFT_RUN, 2 * SOFT_RUN + 1>>, <<" ">>)
    /\ Len(softened) = Len(soft_text) + 3
    /\ softened[SOFT_RUN + 1] = SHY /\ softened[SOFT_RUN + 2] = " "

\* C29: for every non-empty text and the same budget the wrapping loop of
\* txt_to_pptx computes the list of lines _lines_for_paragraph returns.
C29_InlineLoopIsHelper ==
    (wrap_pc = "both" /\ wrap_text # <<>>) => inline_lines = helper_lines

\* C30: when the deck of a non-empty block sequence is saved, every slide after
\* the cover holds a heading or at least one body line.
C30_NoBlankContentSlide ==
    (pc = "saved" /\ blocks # <<>>) =>
        \A s \in ContentSlides : ParasOn(slides[s]) # <<>>

====
